---- MODULE Spec2Model ----
(***************************************************************************)
(* A model of the deck store (src/src/lib/store.ts): the session registry, *)
(* the gateway event router, column delegation and the send path.          *)
(*                                                                         *)
(* Representation.                                                         *)
(*  - A string that the code splits, slices or concatenates is a sequence: *)
(*    a session key is the sequence of its colon-delimited segments        *)
(*    ("agent:main:col-a" is <<"agent","main","col-a">>), a message text   *)
(*    is the sequence of its characters ("Hel" is <<"H","e","l">>).        *)
(*  - undefined is <<>> for a session key and for an optional record       *)
(*    (Some(v) is <<v>>), "undefined" for a run id; null is "null".        *)
(*  - A ChatMessage always carries streaming, runId and compaction: the    *)
(*    code reads streaming only for truthiness and runId only with ===,    *)
(*    so an absent field and an undefined (or false) one are the same to   *)
(*    it. timestamp (Date.now()) is read by no store operation and is not  *)
(*    modelled.                                                            *)
(*  - An AgentSession is a record; the object {status: "error"} that the   *)
(*    catch of sendMessage builds for a removed column is the record with  *)
(*    that one field, and object spread is Spread.                         *)
(*  - sessions is a JavaScript object: a map (sessions) with the insertion *)
(*    order of its keys (sessionKeys), which Object.entries follows.       *)
(*  - subagentMessages[k] || [] is what every reader takes, so a missing   *)
(*    key and an empty log are the same: the log is total over the keys.   *)
(***************************************************************************)
EXTENDS Integers, Sequences, FiniteSets, TLC

VARIABLES
    config,             \* config.agents: the sequence of configured agent ids
    sessions,           \* Record<string, AgentSession>
    sessionKeys,        \* Object.keys(sessions), in insertion order
    columnOrder,        \* string[]
    gatewayConnected,   \* boolean
    client,             \* "null" or "client" (a GatewayClient)
    clientConnected,    \* client.connected
    subagentMessages,   \* Record<sessionKey, ChatMessage[]>
    storage,            \* localStorage["openclaw-deck-state-messages"], Some(map) or <<>>
    calls,              \* the requests of the store that await their response
    idCounter,          \* number of ids makeId() has handed out
    gatewaySessions,    \* GatewaySession[], the sessions the gateway listed last
    subagentColumnOrder,\* string[], the keys of the subagent columns
    lastSubagentPoll,   \* number | null: Some(time of the last listing) or <<>>
    last                \* the operation that produced this state, with its arguments

vars == <<config, sessions, sessionKeys, columnOrder, gatewayConnected, client,
          clientConnected, subagentMessages, storage, calls, idCounter,
          gatewaySessions, subagentColumnOrder, lastSubagentPoll, last>>

\* The part of the store that refreshGatewaySessions and the subagent column
\* actions write.
GatewayVars == <<gatewaySessions, subagentColumnOrder, lastSubagentPoll>>

(***************************************************************************)
(* Bounds of the model.                                                    *)
(***************************************************************************)
MaxIds == 3         \* messages created by the store in one behaviour
MaxChars == 5       \* characters in one text, and tokenCount
MaxAgents == 2      \* entries of config.agents
MaxCalls == 2       \* requests in flight
MaxListed == 2      \* sessions in one listing of the gateway

(***************************************************************************)
(* Values.                                                                 *)
(***************************************************************************)
Null == "null"
Undefined == "undefined"
NoKey == <<>>
None == <<>>
Some(v) == <<v>>

ColumnIds == {"col-a", "subagent"}
RunIds == {"r1", "r2"}
Hel == <<"H", "e", "l">>
lo == <<"l", "o">>
Deltas == {Hel, lo}
UserText == <<"h", "i">>

\* The colon-delimited segments of a column id: "a:b" is the one id of the
\* model that holds a colon.
SegmentsOf(columnId) == IF columnId = "a:b" THEN <<"a", "b">> ELSE <<columnId>>

\* "agent:main:<columnId>", built by sendMessage, as split(":") sees it
ColumnKey(columnId) == <<"agent", "main">> \o SegmentsOf(columnId)
SubagentKeyA == <<"agent", "main", "subagent", "abc123">>
SubagentKeyB == <<"agent", "main", "subagent", "xyz789">>
SubagentKeys == {SubagentKeyA, SubagentKeyB}
\* the key of a session that the gateway lists with a parentSession and
\* without a ":subagent:" segment
ChildKey == <<"agent", "main", "child">>
SessionKeyInputs == {ColumnKey(c) : c \in ColumnIds} \cup SubagentKeys \cup {NoKey}

(***************************************************************************)
(* JavaScript helpers.                                                     *)
(***************************************************************************)
\* {...a, ...b}
Spread(a, b) ==
    [f \in (DOMAIN a) \cup (DOMAIN b) |-> IF f \in DOMAIN b THEN b[f] ELSE a[f]]

\* {...map, [key]: value} on an object with ordered keys
Put(map, key, value) ==
    [k \in (DOMAIN map) \cup {key} |-> IF k = key THEN value ELSE map[k]]

PutKey(keys, key) ==
    IF \E i \in 1..Len(keys) : keys[i] = key THEN keys ELSE Append(keys, key)

RECURSIVE Filter(_, _)
Filter(seq, keep) ==
    IF seq = <<>> THEN <<>>
    ELSE IF Head(seq) \in keep THEN <<Head(seq)>> \o Filter(Tail(seq), keep)
    ELSE Filter(Tail(seq), keep)

Range(seq) == {seq[i] : i \in 1..Len(seq)}

\* sessionKey.includes(":subagent:"): the segment stands between two colons
includesSubagent(sessionKey) ==
    \E i \in 2..(Len(sessionKey) - 1) : sessionKey[i] = "subagent"

\* A faulty parse, which takes the segment before the column id.
columnIdOfKey_SecondSegment(sessionKey) ==
    IF Len(sessionKey) >= 2 THEN sessionKey[2]
    ELSE IF Len(sessionKey) >= 1 THEN sessionKey[1]
    ELSE "main"

\* const parts = sessionKey?.split(":") ?? []; parts[2] ?? parts[1] ?? "main"
columnIdOfKey(sessionKey) ==
    IF Len(sessionKey) >= 3 THEN sessionKey[3]
    ELSE IF Len(sessionKey) >= 2 THEN sessionKey[2]
    ELSE "main"

(***************************************************************************)
(* Records of the store.                                                   *)
(***************************************************************************)
Message(id, role, text, streaming, runId) ==
    [id |-> id, role |-> role, text |-> text, streaming |-> streaming,
     runId |-> runId, compaction |-> None]

createSession(agentId) ==
    [agentId |-> agentId, status |-> "idle", messages |-> <<>>,
     activeRunId |-> Null, tokenCount |-> 0, connected |-> FALSE,
     usage |-> None, assignedSubagent |-> NoKey, mode |-> "chat"]

\* whether reading session.messages yields an array
hasMessages(session) == "messages" \in DOMAIN session

\* The part of the store that handlers read and write, threaded through the
\* calls of one handler; thrown is set when a call throws a TypeError.
Store ==
    [sessions |-> sessions, sessionKeys |-> sessionKeys,
     subagentMessages |-> subagentMessages, storage |-> storage,
     idCounter |-> idCounter, thrown |-> FALSE]

\* makeId(): an id no message carries yet
makeId(st) == st.idCounter + 1

Throw(st) == [st EXCEPT !.thrown = TRUE]

(***************************************************************************)
(* Persistence.                                                            *)
(***************************************************************************)
\* saveMessages: the try block throws on a session without messages, and
\* nothing is written.
saveMessages(st, sess) ==
    IF \E id \in DOMAIN sess : ~hasMessages(sess[id]) THEN st
    ELSE [st EXCEPT !.storage =
            Some([id \in DOMAIN sess |->
                    SelectSeq(sess[id].messages, LAMBDA m : ~m.streaming)])]

loadPersistedMessages == IF storage = None THEN [id \in {} |-> <<>>] ELSE storage[1]

(***************************************************************************)
(* Registry mutations (each is one set() call of the store).               *)
(***************************************************************************)
\* A faulty setAgentStatus, which creates the session it does not find.
setAgentStatus_Creates(st, agentId, status) ==
    IF agentId \notin DOMAIN st.sessions
    THEN [st EXCEPT !.sessions = Put(st.sessions, agentId, [status |-> status]),
                    !.sessionKeys = PutKey(st.sessionKeys, agentId)]
    ELSE [st EXCEPT !.sessions[agentId] = Spread(@, [status |-> status])]

\* A faulty setAgentStatus, which forgets the run of the column as well.
setAgentStatus_DropsRun(st, agentId, status) ==
    IF agentId \notin DOMAIN st.sessions THEN st
    ELSE [st EXCEPT !.sessions[agentId] =
            Spread(@, [status |-> status, activeRunId |-> Null])]

setAgentStatus(st, agentId, status) ==
    IF agentId \notin DOMAIN st.sessions THEN st
    ELSE [st EXCEPT !.sessions[agentId] = Spread(@, [status |-> status])]

\* A faulty appendMessageChunk, which puts the chunk in the place of the text.
appendMessageChunk_Replaces(st, agentId, runId, chunk) ==
    IF agentId \notin DOMAIN st.sessions THEN st
    ELSE LET session == st.sessions[agentId] IN
         IF ~hasMessages(session) THEN Throw(st)
         ELSE LET messages ==
                    [i \in 1..Len(session.messages) |->
                        LET msg == session.messages[i] IN
                        IF msg.runId = runId /\ msg.streaming
                        THEN [msg EXCEPT !.text = chunk]
                        ELSE msg]
              IN [st EXCEPT !.sessions[agentId] =
                    Spread(session, [messages |-> messages,
                                     tokenCount |-> session.tokenCount + Len(chunk)])]

\* A faulty appendMessageChunk, which appends to every message of the run,
\* streaming or not.
appendMessageChunk_AnyOfRun(st, agentId, runId, chunk) ==
    IF agentId \notin DOMAIN st.sessions THEN st
    ELSE LET session == st.sessions[agentId] IN
         IF ~hasMessages(session) THEN Throw(st)
         ELSE LET messages ==
                    [i \in 1..Len(session.messages) |->
                        LET msg == session.messages[i] IN
                        IF msg.runId = runId
                        THEN [msg EXCEPT !.text = msg.text \o chunk]
                        ELSE msg]
              IN [st EXCEPT !.sessions[agentId] =
                    Spread(session, [messages |-> messages,
                                     tokenCount |-> session.tokenCount + Len(chunk)])]

\* session.messages.map throws on a session without messages
appendMessageChunk(st, agentId, runId, chunk) ==
    IF agentId \notin DOMAIN st.sessions THEN st
    ELSE LET session == st.sessions[agentId] IN
         IF ~hasMessages(session) THEN Throw(st)
         ELSE LET messages ==
                    [i \in 1..Len(session.messages) |->
                        LET msg == session.messages[i] IN
                        IF msg.runId = runId /\ msg.streaming
                        THEN [msg EXCEPT !.text = msg.text \o chunk]
                        ELSE msg]
              IN [st EXCEPT !.sessions[agentId] =
                    Spread(session, [messages |-> messages,
                                     tokenCount |-> session.tokenCount + Len(chunk)])]

\* A faulty finalizeMessage, which leaves activeRunId in place.
finalizeMessage_KeepsRun(st, agentId, runId) ==
    IF agentId \notin DOMAIN st.sessions THEN st
    ELSE LET session == st.sessions[agentId] IN
         IF ~hasMessages(session) THEN Throw(st)
         ELSE LET messages ==
                    [i \in 1..Len(session.messages) |->
                        LET msg == session.messages[i] IN
                        IF msg.runId = runId THEN [msg EXCEPT !.streaming = FALSE]
                        ELSE msg]
              IN [st EXCEPT !.sessions[agentId] =
                    Spread(session, [messages |-> messages, status |-> "idle"])]

finalizeMessage(st, agentId, runId) ==
    IF agentId \notin DOMAIN st.sessions THEN st
    ELSE LET session == st.sessions[agentId] IN
         IF ~hasMessages(session) THEN Throw(st)
         ELSE LET messages ==
                    [i \in 1..Len(session.messages) |->
                        LET msg == session.messages[i] IN
                        IF msg.runId = runId THEN [msg EXCEPT !.streaming = FALSE]
                        ELSE msg]
              IN [st EXCEPT !.sessions[agentId] =
                    Spread(session, [messages |-> messages, activeRunId |-> Null,
                                     status |-> "idle"])]

\* The first column, in the order of Object.entries, whose assignedSubagent
\* is the key; "undefined" when there is none.
\* A faulty lookup, which takes the first column that watches any session.
getColumnBySubagent_AnyDelegated(st, sessionKey) ==
    LET hit(i) == LET s == st.sessions[st.sessionKeys[i]] IN
                  "assignedSubagent" \in DOMAIN s /\ s.assignedSubagent # NoKey
        hits == {i \in 1..Len(st.sessionKeys) : hit(i)}
    IN IF hits = {} THEN Undefined
       ELSE st.sessionKeys[CHOOSE i \in hits : \A j \in hits : i <= j]

getColumnBySubagent(st, sessionKey) ==
    LET hit(i) == LET s == st.sessions[st.sessionKeys[i]] IN
                  "assignedSubagent" \in DOMAIN s /\ s.assignedSubagent = sessionKey
        hits == {i \in 1..Len(st.sessionKeys) : hit(i)}
    IN IF hits = {} THEN Undefined
       ELSE st.sessionKeys[CHOOSE i \in hits : \A j \in hits : i <= j]

clearMessageHistory(st, agentId) ==
    IF agentId \notin DOMAIN st.sessions THEN st
    ELSE LET newSessions ==
                [st.sessions EXCEPT ![agentId] =
                    Spread(@, [messages |-> <<>>, tokenCount |-> 0, usage |-> None])]
         IN [saveMessages(st, newSessions) EXCEPT !.sessions = newSessions]

\* "Watching subagent: " and the last segment of the key (slice(0, 8) keeps a
\* segment of at most eight characters whole)
delegationText(sessionKey) ==
    <<"Watching subagent: ",
      IF sessionKey = <<>> THEN "" ELSE sessionKey[Len(sessionKey)]>>

\* A faulty assignSubagentToColumn, which writes the key into every session.
assignSubagentToColumn_Everywhere(st, columnId, sessionKey) ==
    IF columnId \notin DOMAIN st.sessions THEN st
    ELSE LET session == st.sessions[columnId] IN
         IF ~hasMessages(session) THEN Throw(st)
         ELSE LET delegationMsg ==
                    Message(makeId(st), "system", delegationText(sessionKey), FALSE, Undefined)
              IN [st EXCEPT !.idCounter = @ + 1,
                            !.sessions =
                                [id \in DOMAIN st.sessions |->
                                    IF id = columnId
                                    THEN Spread(session,
                                           [assignedSubagent |-> sessionKey,
                                            mode |-> "delegation",
                                            messages |-> Append(session.messages, delegationMsg),
                                            status |-> "idle"])
                                    ELSE Spread(st.sessions[id],
                                           [assignedSubagent |-> sessionKey])]]

assignSubagentToColumn(st, columnId, sessionKey) ==
    IF columnId \notin DOMAIN st.sessions THEN st
    ELSE LET session == st.sessions[columnId] IN
         IF ~hasMessages(session) THEN Throw(st)
         ELSE LET delegationMsg ==
                    Message(makeId(st), "system", delegationText(sessionKey), FALSE, Undefined)
              IN [st EXCEPT !.idCounter = @ + 1,
                            !.sessions[columnId] =
                                Spread(session,
                                       [assignedSubagent |-> sessionKey,
                                        mode |-> "delegation",
                                        messages |-> Append(session.messages, delegationMsg),
                                        status |-> "idle"])]

\* A faulty unassign, which changes the mode and keeps the key.
unassignSubagentFromColumn_KeepsKey(st, columnId) ==
    IF columnId \notin DOMAIN st.sessions THEN st
    ELSE LET session == st.sessions[columnId] IN
         IF ~hasMessages(session) THEN Throw(st)
         ELSE LET unassignMsg ==
                    Message(makeId(st), "system", <<"Stopped watching subagent">>,
                            FALSE, Undefined)
              IN [st EXCEPT !.idCounter = @ + 1,
                            !.sessions[columnId] =
                                Spread(session,
                                       [mode |-> "chat",
                                        messages |-> Append(session.messages, unassignMsg),
                                        status |-> "idle"])]

unassignSubagentFromColumn(st, columnId) ==
    IF columnId \notin DOMAIN st.sessions THEN st
    ELSE LET session == st.sessions[columnId] IN
         IF ~hasMessages(session) THEN Throw(st)
         ELSE LET unassignMsg ==
                    Message(makeId(st), "system", <<"Stopped watching subagent">>,
                            FALSE, Undefined)
              IN [st EXCEPT !.idCounter = @ + 1,
                            !.sessions[columnId] =
                                Spread(session,
                                       [assignedSubagent |-> NoKey,
                                        mode |-> "chat",
                                        messages |-> Append(session.messages, unassignMsg),
                                        status |-> "idle"])]

(***************************************************************************)
(* Gateway events.  payload fields that are absent are undefined:          *)
(* data.delta is <<>> (undefined and "" are both falsy), data.phase is     *)
(* "undefined".                                                            *)
(***************************************************************************)
AgentEvent(sessionKey, runId, stream, delta, phase) ==
    [event |-> "agent",
     payload |-> [runId |-> runId, stream |-> stream,
                  data |-> [delta |-> delta, phase |-> phase],
                  sessionKey |-> sessionKey]]

\* A faulty capture, which never looks for the message of the run.
captureSubagentStream_AlwaysNew(st, payload) ==
    LET runId == payload.runId
        stream == payload.stream
        data == payload.data
        sessionKey == payload.sessionKey
        existing == st.subagentMessages[sessionKey]
        runMsgs == {i \in 1..Len(existing) :
                        existing[i].runId = runId /\ existing[i].streaming}
        runMsgIdx == -1
    IN IF stream = "assistant" /\ data.delta # <<>>
       THEN IF runMsgIdx >= 0
            THEN [st EXCEPT !.subagentMessages[sessionKey][runMsgIdx].text =
                                @ \o data.delta]
            ELSE [st EXCEPT !.idCounter = @ + 1,
                            !.subagentMessages[sessionKey] =
                                Append(existing,
                                       Message(makeId(st), "assistant", data.delta,
                                               TRUE, runId))]
       ELSE IF stream = "lifecycle" /\ data.phase = "end"
       THEN [st EXCEPT !.subagentMessages[sessionKey] =
                [i \in 1..Len(existing) |->
                    IF existing[i].runId = runId
                    THEN [existing[i] EXCEPT !.streaming = FALSE]
                    ELSE existing[i]]]
       ELSE st

\* A faulty capture, which finds the message of the run by runId alone.
captureSubagentStream_Reopens(st, payload) ==
    LET runId == payload.runId
        stream == payload.stream
        data == payload.data
        sessionKey == payload.sessionKey
        existing == st.subagentMessages[sessionKey]
        runMsgs == {i \in 1..Len(existing) : existing[i].runId = runId}
        runMsgIdx == IF runMsgs = {} THEN -1
                     ELSE CHOOSE i \in runMsgs : \A j \in runMsgs : i <= j
    IN IF stream = "assistant" /\ data.delta # <<>>
       THEN IF runMsgIdx >= 0
            THEN [st EXCEPT !.subagentMessages[sessionKey][runMsgIdx].text =
                                @ \o data.delta]
            ELSE [st EXCEPT !.idCounter = @ + 1,
                            !.subagentMessages[sessionKey] =
                                Append(existing,
                                       Message(makeId(st), "assistant", data.delta,
                                               TRUE, runId))]
       ELSE IF stream = "lifecycle" /\ data.phase = "end"
       THEN [st EXCEPT !.subagentMessages[sessionKey] =
                [i \in 1..Len(existing) |->
                    IF existing[i].runId = runId
                    THEN [existing[i] EXCEPT !.streaming = FALSE]
                    ELSE existing[i]]]
       ELSE st

\* handleGatewayEvent, case "agent": capture of a subagent stream
captureSubagentStream(st, payload) ==
    LET runId == payload.runId
        stream == payload.stream
        data == payload.data
        sessionKey == payload.sessionKey
        existing == st.subagentMessages[sessionKey]
        runMsgs == {i \in 1..Len(existing) :
                        existing[i].runId = runId /\ existing[i].streaming}
        runMsgIdx == IF runMsgs = {} THEN -1
                     ELSE CHOOSE i \in runMsgs : \A j \in runMsgs : i <= j
    IN IF stream = "assistant" /\ data.delta # <<>>
       THEN IF runMsgIdx >= 0
            THEN [st EXCEPT !.subagentMessages[sessionKey][runMsgIdx].text =
                                @ \o data.delta]
            ELSE [st EXCEPT !.idCounter = @ + 1,
                            !.subagentMessages[sessionKey] =
                                Append(existing,
                                       Message(makeId(st), "assistant", data.delta,
                                               TRUE, runId))]
       ELSE IF stream = "lifecycle" /\ data.phase = "end"
       THEN [st EXCEPT !.subagentMessages[sessionKey] =
                [i \in 1..Len(existing) |->
                    IF existing[i].runId = runId
                    THEN [existing[i] EXCEPT !.streaming = FALSE]
                    ELSE existing[i]]]
       ELSE st

\* A faulty placeholder, which starts with the text of the delta.
delegatedPlaceholder_Prefilled(st, agentId, payload) ==
    LET session == st.sessions[agentId] IN
    IF ~hasMessages(session) THEN Throw(st)
    ELSE LET hasRunMessage ==
                \E i \in 1..Len(session.messages) :
                    session.messages[i].runId = payload.runId
         IN IF ~hasRunMessage /\ payload.stream = "assistant"
            THEN [st EXCEPT !.idCounter = @ + 1,
                            !.sessions[agentId] =
                                Spread(session,
                                       [messages |->
                                            Append(session.messages,
                                                   Message(makeId(st), "assistant",
                                                           payload.data.delta,
                                                           TRUE, payload.runId)),
                                        activeRunId |-> payload.runId])]
            ELSE st

\* handleGatewayEvent, case "agent": the placeholder of a delegated column
delegatedPlaceholder(st, agentId, payload) ==
    LET session == st.sessions[agentId] IN
    IF ~hasMessages(session) THEN Throw(st)
    ELSE LET hasRunMessage ==
                \E i \in 1..Len(session.messages) :
                    session.messages[i].runId = payload.runId
         IN IF ~hasRunMessage /\ payload.stream = "assistant"
            THEN [st EXCEPT !.idCounter = @ + 1,
                            !.sessions[agentId] =
                                Spread(session,
                                       [messages |->
                                            Append(session.messages,
                                                   Message(makeId(st), "assistant", <<>>,
                                                           TRUE, payload.runId)),
                                        activeRunId |-> payload.runId])]
            ELSE st

\* handleGatewayEvent, case "agent": what the event does to its column
applyAgentEvent(st, agentId, payload) ==
    LET runId == payload.runId
        stream == payload.stream
        data == payload.data
    IN IF stream = "assistant" /\ data.delta # <<>>
       THEN LET st1 == appendMessageChunk(st, agentId, runId, data.delta)
            IN IF st1.thrown THEN st1 ELSE setAgentStatus(st1, agentId, "streaming")
       ELSE IF stream = "lifecycle"
       THEN IF data.phase = "start" THEN setAgentStatus(st, agentId, "thinking")
            ELSE IF data.phase = "end" THEN finalizeMessage(st, agentId, runId)
            ELSE st
       ELSE IF stream = "tool_use" THEN setAgentStatus(st, agentId, "tool_use")
       ELSE st

\* A faulty handler, without the guard that ends a pure subagent event.
handleAgentEvent_FallsThrough(st, payload) ==
    LET sessionKey == payload.sessionKey
        isSubagentSession == includesSubagent(sessionKey)
        st1 == IF isSubagentSession /\ sessionKey # NoKey
               THEN captureSubagentStream(st, payload) ELSE st
        delegatedColumn == IF sessionKey # NoKey
                           THEN getColumnBySubagent(st1, sessionKey) ELSE Undefined
        agentId == IF delegatedColumn # Undefined THEN delegatedColumn
                   ELSE columnIdOfKey(sessionKey)
    IN LET st2 == IF delegatedColumn # Undefined
                  THEN delegatedPlaceholder(st1, agentId, payload) ELSE st1
       IN IF st2.thrown THEN st2 ELSE applyAgentEvent(st2, agentId, payload)

handleAgentEvent(st, payload) ==
    LET sessionKey == payload.sessionKey
        isSubagentSession == includesSubagent(sessionKey)
        st1 == IF isSubagentSession /\ sessionKey # NoKey
               THEN captureSubagentStream(st, payload) ELSE st
        delegatedColumn == IF sessionKey # NoKey
                           THEN getColumnBySubagent(st1, sessionKey) ELSE Undefined
        agentId == IF delegatedColumn # Undefined THEN delegatedColumn
                   ELSE columnIdOfKey(sessionKey)
    IN IF isSubagentSession /\ delegatedColumn = Undefined THEN st1
       ELSE LET st2 == IF delegatedColumn # Undefined
                       THEN delegatedPlaceholder(st1, agentId, payload) ELSE st1
            IN IF st2.thrown THEN st2 ELSE applyAgentEvent(st2, agentId, payload)

PresenceEvent(agents) == [event |-> "presence", payload |-> [agents |-> agents]]
TickEvent == [event |-> "tick", payload |-> [ts |-> 0]]
OtherEvent(name) == [event |-> name, payload |-> [ts |-> 0]]
CompactionEvent(sessionKey, beforeTokens, afterTokens, droppedMessages) ==
    [event |-> "compaction",
     payload |-> [sessionKey |-> sessionKey, beforeTokens |-> beforeTokens,
                  afterTokens |-> afterTokens, droppedMessages |-> droppedMessages]]
UsageEvent(sessionKey, usage) ==
    [event |-> "sessions.usage", payload |-> [sessionKey |-> sessionKey, usage |-> usage]]
ChatEvent(sessionKey, message) ==
    [event |-> "chat", payload |-> [sessionKey |-> sessionKey, message |-> message]]

\* A faulty presence handler, which leaves the status of an offline column.
handlePresence_KeepsStatus(st, payload) ==
    IF payload.agents = None THEN st
    ELSE LET agents == payload.agents[1] IN
         [st EXCEPT !.sessions =
            [id \in DOMAIN st.sessions |->
                IF id \in DOMAIN agents
                THEN Spread(st.sessions[id], [connected |-> agents[id].online])
                ELSE st.sessions[id]]]

\* handleGatewayEvent, case "presence"; payload.agents is Some(map) or None
handlePresence(st, payload) ==
    IF payload.agents = None THEN st
    ELSE LET agents == payload.agents[1] IN
         [st EXCEPT !.sessions =
            [id \in DOMAIN st.sessions |->
                IF id \in DOMAIN agents
                THEN Spread(st.sessions[id],
                            [connected |-> agents[id].online,
                             status |-> IF agents[id].online
                                        THEN st.sessions[id].status
                                        ELSE "disconnected"])
                ELSE st.sessions[id]]]

\* x ?? 0 on an optional number
orZero(x) == IF x = None THEN 0 ELSE x[1]

\* A faulty compaction handler, which takes afterTokens for the token count.
handleCompaction_SetsTokens(st, payload) ==
    LET agentId == columnIdOfKey(payload.sessionKey) IN
    IF agentId \notin DOMAIN st.sessions THEN st
    ELSE LET session == st.sessions[agentId] IN
         IF ~hasMessages(session) THEN Throw(st)
         ELSE LET compactionMsg ==
                    [Message(makeId(st), "compaction", <<>>, FALSE, Undefined)
                        EXCEPT !.compaction =
                            Some([beforeTokens |-> orZero(payload.beforeTokens),
                                  afterTokens |-> orZero(payload.afterTokens),
                                  droppedMessages |-> orZero(payload.droppedMessages)])]
              IN [st EXCEPT !.idCounter = @ + 1,
                            !.sessions[agentId] =
                                Spread(session,
                                       [messages |-> Append(session.messages, compactionMsg),
                                        tokenCount |-> orZero(payload.afterTokens)])]

\* handleGatewayEvent, case "compaction"
handleCompaction(st, payload) ==
    LET agentId == columnIdOfKey(payload.sessionKey) IN
    IF agentId \notin DOMAIN st.sessions THEN st
    ELSE LET session == st.sessions[agentId] IN
         IF ~hasMessages(session) THEN Throw(st)
         ELSE LET compactionMsg ==
                    [Message(makeId(st), "compaction", <<>>, FALSE, Undefined)
                        EXCEPT !.compaction =
                            Some([beforeTokens |-> orZero(payload.beforeTokens),
                                  afterTokens |-> orZero(payload.afterTokens),
                                  droppedMessages |-> orZero(payload.droppedMessages)])]
              IN [st EXCEPT !.idCounter = @ + 1,
                            !.sessions[agentId] =
                                Spread(session,
                                       [messages |-> Append(session.messages, compactionMsg)])]

\* A faulty usage handler, which adds the total to the count of the deltas.
handleUsage_AddsTokens(st, payload) ==
    LET agentId == columnIdOfKey(payload.sessionKey) IN
    IF payload.usage = None \/ agentId \notin DOMAIN st.sessions THEN st
    ELSE [st EXCEPT !.sessions[agentId] =
            Spread(@, [usage |-> payload.usage,
                       tokenCount |-> @.tokenCount + payload.usage[1].totalTokens])]

\* handleGatewayEvent, case "sessions.usage"; payload.usage is Some(usage) or None
handleUsage(st, payload) ==
    LET agentId == columnIdOfKey(payload.sessionKey) IN
    IF payload.usage = None \/ agentId \notin DOMAIN st.sessions THEN st
    ELSE [st EXCEPT !.sessions[agentId] =
            Spread(@, [usage |-> payload.usage,
                       tokenCount |-> payload.usage[1].totalTokens])]

\* !text.trim(): the text holds nothing but white space
isBlank(text) == \A i \in 1..Len(text) : text[i] = " "

\* A faulty chat handler, which also gives the message to the watching column.
handleChat_MirrorsToColumn(st, payload) ==
    LET sessionKey == payload.sessionKey IN
    IF sessionKey = NoKey \/ payload.message = None THEN st
    ELSE IF ~includesSubagent(sessionKey) THEN st
    ELSE LET message == payload.message[1]
             text == IF message.text # <<>> THEN message.text ELSE message.content
             role == IF message.role # Undefined THEN message.role ELSE "assistant"
             msgRunId == message.runId
             existing == st.subagentMessages[sessionKey]
         IN IF isBlank(text) /\ role = "assistant" THEN st
            ELSE IF /\ role = "assistant"
                    /\ \/ /\ msgRunId # Undefined
                          /\ \E i \in 1..Len(existing) : existing[i].runId = msgRunId
                       \/ \E i \in 1..Len(existing) :
                            existing[i].role = "assistant" /\ existing[i].streaming
            THEN st
            ELSE LET fresh == message.id = 0
                     chatMsg == Message(IF fresh THEN makeId(st) ELSE message.id,
                                        role, text, FALSE, msgRunId)
                     same == {i \in 1..Len(existing) : existing[i].id = chatMsg.id}
                     existingIdx == IF same = {} THEN -1
                                    ELSE CHOOSE i \in same : \A j \in same : i <= j
                     st1 == IF fresh THEN [st EXCEPT !.idCounter = @ + 1] ELSE st
                 IN IF existingIdx >= 0
                    THEN [st1 EXCEPT !.subagentMessages[sessionKey][existingIdx] = chatMsg]
                    ELSE LET column == getColumnBySubagent(st, sessionKey)
                             st2 == [st1 EXCEPT !.subagentMessages[sessionKey] =
                                                    Append(existing, chatMsg)]
                         IN IF column = Undefined \/ ~hasMessages(st.sessions[column])
                            THEN st2
                            ELSE [st2 EXCEPT !.sessions[column].messages =
                                                Append(@, chatMsg)]

\* A faulty chat handler, which does not look for the id of the message.
handleChat_AlwaysAppends(st, payload) ==
    LET sessionKey == payload.sessionKey IN
    IF sessionKey = NoKey \/ payload.message = None THEN st
    ELSE IF ~includesSubagent(sessionKey) THEN st
    ELSE LET message == payload.message[1]
             text == IF message.text # <<>> THEN message.text ELSE message.content
             role == IF message.role # Undefined THEN message.role ELSE "assistant"
             msgRunId == message.runId
             existing == st.subagentMessages[sessionKey]
         IN IF isBlank(text) /\ role = "assistant" THEN st
            ELSE IF /\ role = "assistant"
                    /\ \/ /\ msgRunId # Undefined
                          /\ \E i \in 1..Len(existing) : existing[i].runId = msgRunId
                       \/ \E i \in 1..Len(existing) :
                            existing[i].role = "assistant" /\ existing[i].streaming
            THEN st
            ELSE LET fresh == message.id = 0
                     chatMsg == Message(IF fresh THEN makeId(st) ELSE message.id,
                                        role, text, FALSE, msgRunId)
                     same == {}
                     existingIdx == IF same = {} THEN -1
                                    ELSE CHOOSE i \in same : \A j \in same : i <= j
                     st1 == IF fresh THEN [st EXCEPT !.idCounter = @ + 1] ELSE st
                 IN IF existingIdx >= 0
                    THEN [st1 EXCEPT !.subagentMessages[sessionKey][existingIdx] = chatMsg]
                    ELSE [st1 EXCEPT !.subagentMessages[sessionKey] =
                                        Append(existing, chatMsg)]

\* A faulty chat handler, which does not look for a streaming message.
handleChat_IgnoresStreaming(st, payload) ==
    LET sessionKey == payload.sessionKey IN
    IF sessionKey = NoKey \/ payload.message = None THEN st
    ELSE IF ~includesSubagent(sessionKey) THEN st
    ELSE LET message == payload.message[1]
             text == IF message.text # <<>> THEN message.text ELSE message.content
             role == IF message.role # Undefined THEN message.role ELSE "assistant"
             msgRunId == message.runId
             existing == st.subagentMessages[sessionKey]
         IN IF isBlank(text) /\ role = "assistant" THEN st
            ELSE IF /\ role = "assistant"
                    /\ msgRunId # Undefined
                    /\ \E i \in 1..Len(existing) : existing[i].runId = msgRunId
            THEN st
            ELSE LET fresh == message.id = 0
                     chatMsg == Message(IF fresh THEN makeId(st) ELSE message.id,
                                        role, text, FALSE, msgRunId)
                     same == {i \in 1..Len(existing) : existing[i].id = chatMsg.id}
                     existingIdx == IF same = {} THEN -1
                                    ELSE CHOOSE i \in same : \A j \in same : i <= j
                     st1 == IF fresh THEN [st EXCEPT !.idCounter = @ + 1] ELSE st
                 IN IF existingIdx >= 0
                    THEN [st1 EXCEPT !.subagentMessages[sessionKey][existingIdx] = chatMsg]
                    ELSE [st1 EXCEPT !.subagentMessages[sessionKey] =
                                        Append(existing, chatMsg)]

\* handleGatewayEvent, case "chat"; payload.message is Some(message) or None, a
\* message's id is 0 when it is absent or empty, its role and runId are
\* "undefined" when absent, its text and content are <<>> when absent or empty.
handleChat(st, payload) ==
    LET sessionKey == payload.sessionKey IN
    IF sessionKey = NoKey \/ payload.message = None THEN st
    ELSE IF ~includesSubagent(sessionKey) THEN st
    ELSE LET message == payload.message[1]
             text == IF message.text # <<>> THEN message.text ELSE message.content
             role == IF message.role # Undefined THEN message.role ELSE "assistant"
             msgRunId == message.runId
             existing == st.subagentMessages[sessionKey]
         IN IF isBlank(text) /\ role = "assistant" THEN st
            ELSE IF /\ role = "assistant"
                    /\ \/ /\ msgRunId # Undefined
                          /\ \E i \in 1..Len(existing) : existing[i].runId = msgRunId
                       \/ \E i \in 1..Len(existing) :
                            existing[i].role = "assistant" /\ existing[i].streaming
            THEN st
            ELSE LET fresh == message.id = 0
                     chatMsg == Message(IF fresh THEN makeId(st) ELSE message.id,
                                        role, text, FALSE, msgRunId)
                     same == {i \in 1..Len(existing) : existing[i].id = chatMsg.id}
                     existingIdx == IF same = {} THEN -1
                                    ELSE CHOOSE i \in same : \A j \in same : i <= j
                     st1 == IF fresh THEN [st EXCEPT !.idCounter = @ + 1] ELSE st
                 IN IF existingIdx >= 0
                    THEN [st1 EXCEPT !.subagentMessages[sessionKey][existingIdx] = chatMsg]
                    ELSE [st1 EXCEPT !.subagentMessages[sessionKey] =
                                        Append(existing, chatMsg)]

\* A faulty router, which takes a tick for a sign of life of every column.
handleGatewayEvent_TickConnects(st, event) ==
    CASE event.event = "agent" -> handleAgentEvent(st, event.payload)
      [] event.event = "presence" -> handlePresence(st, event.payload)
      [] event.event = "tick" ->
            [st EXCEPT !.sessions =
                [id \in DOMAIN st.sessions |-> Spread(st.sessions[id], [connected |-> TRUE])]]
      [] event.event = "compaction" -> handleCompaction(st, event.payload)
      [] event.event = "sessions.usage" -> handleUsage(st, event.payload)
      [] event.event = "chat" -> handleChat(st, event.payload)
      [] OTHER -> st

handleGatewayEvent(st, event) ==
    CASE event.event = "agent" -> handleAgentEvent(st, event.payload)
      [] event.event = "presence" -> handlePresence(st, event.payload)
      [] event.event = "tick" -> st
      [] event.event = "compaction" -> handleCompaction(st, event.payload)
      [] event.event = "sessions.usage" -> handleUsage(st, event.payload)
      [] event.event = "chat" -> handleChat(st, event.payload)
      [] OTHER -> st

(***************************************************************************)
(* Actions.  last names the operation that produced the state, with its    *)
(* arguments.  A call that changes nothing is a stuttering step of the     *)
(* store: Record leaves last alone then, and Log records the call even so  *)
(* (the actions named ...Logged).                                          *)
(***************************************************************************)
Op(op, args) == [op |-> op, args |-> args, sent |-> <<>>]

\* The operation op, which handed the request frames to the client.
Sent(op, frames) == [op EXCEPT !.sent = frames]

StoreVars == <<config, sessions, sessionKeys, columnOrder, gatewayConnected, client,
               clientConnected, subagentMessages, storage, calls, idCounter>>

Record(op) == last' = IF StoreVars' # StoreVars THEN op ELSE last
Log(op) == last' = op
Note(op, always) == IF always THEN Log(op) ELSE Record(op)

textsWithin(messages) ==
    \A i \in 1..Len(messages) : Len(messages[i].text) <= MaxChars

\* The bounds of the model on a store a handler is about to leave behind.
WithinBounds(st) ==
    /\ st.idCounter <= MaxIds
    /\ \A id \in DOMAIN st.sessions :
        LET s == st.sessions[id] IN
        /\ "tokenCount" \in DOMAIN s => s.tokenCount <= MaxChars
        /\ hasMessages(s) => textsWithin(s.messages)
    /\ \A k \in DOMAIN st.subagentMessages : textsWithin(st.subagentMessages[k])

Commit(st) ==
    /\ WithinBounds(st)
    /\ sessions' = st.sessions
    /\ sessionKeys' = st.sessionKeys
    /\ subagentMessages' = st.subagentMessages
    /\ storage' = st.storage
    /\ idCounter' = st.idCounter

\* initialize(config), called once per mount by useDeckInit
initialize(agents) ==
    /\ client = Null
    /\ LET persistedMessages == loadPersistedMessages
           session(id) ==
               IF id \in DOMAIN persistedMessages
               THEN [createSession(id) EXCEPT !.messages = persistedMessages[id]]
               ELSE createSession(id)
       IN /\ sessions' = [id \in Range(agents) |-> session(id)]
          /\ sessionKeys' = agents
    /\ config' = agents
    /\ columnOrder' = agents
    /\ client' = "client"
    /\ clientConnected' = FALSE
    /\ UNCHANGED <<GatewayVars, gatewayConnected, subagentMessages, storage, calls, idCounter>>
    /\ Record(Op("initialize", <<agents>>))

\* the set() call of addAgent
addAgentSet(agentId) ==
    /\ Len(config) < MaxAgents
    /\ config' = Append(config, agentId)
    /\ sessions' = Put(sessions, agentId, createSession(agentId))
    /\ sessionKeys' = PutKey(sessionKeys, agentId)
    /\ columnOrder' = Append(columnOrder, agentId)

addAgent(agentId) ==
    /\ addAgentSet(agentId)
    /\ UNCHANGED <<GatewayVars, gatewayConnected, client, clientConnected, subagentMessages,
                   storage, calls, idCounter>>
    /\ Record(Op("addAgent", <<agentId>>))

\* reorderColumns(order): the order is stored as it is given
reorderColumns(order) ==
    /\ columnOrder' = order
    /\ UNCHANGED <<GatewayVars, config, sessions, sessionKeys, gatewayConnected, client,
                   clientConnected, subagentMessages, storage, calls, idCounter>>
    /\ Record(Op("reorderColumns", <<order>>))

\* the set() call of removeAgent
removeAgentSet(agentId) ==
    /\ config' = Filter(config, Range(config) \ {agentId})
    /\ sessions' = [id \in (DOMAIN sessions) \ {agentId} |-> sessions[id]]
    /\ sessionKeys' = Filter(sessionKeys, (DOMAIN sessions) \ {agentId})
    /\ columnOrder' = Filter(columnOrder, Range(columnOrder) \ {agentId})

removeAgent(agentId) ==
    /\ removeAgentSet(agentId)
    /\ UNCHANGED <<GatewayVars, gatewayConnected, client, clientConnected, subagentMessages,
                   storage, calls, idCounter>>
    /\ Record(Op("removeAgent", <<agentId>>))

\* A store operation that is synchronous set() calls on the registry.
Registry(st) ==
    /\ Commit(st)
    /\ UNCHANGED <<GatewayVars, config, columnOrder, gatewayConnected, client, clientConnected, calls>>

AssignSubagentToColumn(columnId, sessionKey) ==
    /\ Registry(assignSubagentToColumn(Store, columnId, sessionKey))
    /\ Record(Op("assignSubagentToColumn", <<columnId, sessionKey>>))

UnassignSubagentFromColumn(columnId) ==
    /\ Registry(unassignSubagentFromColumn(Store, columnId))
    /\ Record(Op("unassignSubagentFromColumn", <<columnId>>))

ClearMessageHistory(agentId) ==
    /\ Registry(clearMessageHistory(Store, agentId))
    /\ Record(Op("clearMessageHistory", <<agentId>>))

HandleGatewayEvent(event) ==
    /\ Registry(handleGatewayEvent(Store, event))
    /\ Record(Op("handleGatewayEvent", <<event>>))

(***************************************************************************)
(* The callers of the delegation actions (hooks/index.ts).  The subagents  *)
(* the menu of a column offers: those no other column has assigned.  The   *)
(* gateway's session list is not part of the model: every subagent key is  *)
(* taken to be listed and active.                                          *)
(***************************************************************************)
assignedSubagentOf(session) ==
    IF "assignedSubagent" \in DOMAIN session THEN session.assignedSubagent ELSE NoKey

\* A session as the gateway lists it: the fields the deck reads.
GatewaySession(key, active, status, parentSession) ==
    [key |-> key, active |-> active, status |-> status, parentSession |-> parentSession]

\* s.key.includes(":subagent:") || s.parentSession
isSubagent(s) == includesSubagent(s.key) \/ s.parentSession # Undefined

\* A faulty useAvailableSubagents, which offers the keys other columns watch.
useAvailableSubagents_Any(currentColumnId) ==
    LET isActive(s) == s.active \/ s.status = "running" \/ s.status = "streaming"
    IN {s \in Range(gatewaySessions) : isSubagent(s) /\ isActive(s)}

\* The sessions the hook returns, as a set: the order its sort gives them is
\* left out.
useAvailableSubagents(currentColumnId) ==
    LET assignedKeys ==
            {assignedSubagentOf(sessions[columnId]) :
                columnId \in (DOMAIN sessions) \ {currentColumnId}} \ {NoKey}
        isActive(s) == s.active \/ s.status = "running" \/ s.status = "streaming"
        notAssigned(s) == s.key \notin assignedKeys
    IN {s \in Range(gatewaySessions) : isSubagent(s) /\ isActive(s) /\ notAssigned(s)}

\* assign and unassign of useColumnDelegation (hooks/index.ts), as the menu
\* of a column calls them: assign for a subagent the menu offers.
assign(columnId, sessionKey) ==
    /\ \E s \in useAvailableSubagents(columnId) : s.key = sessionKey
    /\ AssignSubagentToColumn(columnId, sessionKey)

unassign(columnId) == UnassignSubagentFromColumn(columnId)

\* The registry mutations called on the store directly, each logged also
\* when it changes nothing.
SetAgentStatus(agentId, status) ==
    /\ Registry(setAgentStatus(Store, agentId, status))
    /\ Log(Op("setAgentStatus", <<agentId, status>>))

AppendMessageChunk(agentId, runId, chunk) ==
    /\ Registry(appendMessageChunk(Store, agentId, runId, chunk))
    /\ Log(Op("appendMessageChunk", <<agentId, runId, chunk>>))

FinalizeMessage(agentId, runId) ==
    /\ Registry(finalizeMessage(Store, agentId, runId))
    /\ Log(Op("finalizeMessage", <<agentId, runId>>))

ClearMessageHistoryLogged(agentId) ==
    /\ Registry(clearMessageHistory(Store, agentId))
    /\ Log(Op("clearMessageHistory", <<agentId>>))

AssignSubagentToColumnLogged(columnId, sessionKey) ==
    /\ Registry(assignSubagentToColumn(Store, columnId, sessionKey))
    /\ Log(Op("assignSubagentToColumn", <<columnId, sessionKey>>))

UnassignSubagentFromColumnLogged(columnId) ==
    /\ Registry(unassignSubagentFromColumn(Store, columnId))
    /\ Log(Op("unassignSubagentFromColumn", <<columnId>>))

\* handleGatewayEvent with the event logged also when it changes nothing.
HandleGatewayEventLogged(event) ==
    /\ Registry(handleGatewayEvent(Store, event))
    /\ Log(Op("handleGatewayEvent", <<event>>))

RemoveAt(seq, i) == SubSeq(seq, 1, i - 1) \o SubSeq(seq, i + 1, Len(seq))

\* state.sessions[agentId], spread: {} when there is no such session
sessionOrEmpty(st, agentId) ==
    IF agentId \in DOMAIN st.sessions THEN st.sessions[agentId] ELSE [f \in {} |-> 0]

\* A request frame, and the entry the client keeps of it while it awaits the
\* response: its id, its method and the column of the caller that awaits it.
\* The client generates the id, unique among all requests; the request of
\* sendMessage takes the id of its user message here, which no other request
\* carries.
Request(id, method, params) == [id |-> id, method |-> method, params |-> params]
PendingCall(id, method, agentId) == [id |-> id, method |-> method, agentId |-> agentId]

\* sendMessage up to its await: the guard, the user message, the request.  It
\* returns at once when the gateway is not connected or the column has no
\* session, and [...session.messages] throws on a session without messages.
\* A faulty sendMessage, which does not ask whether the client is connected.
sendMessageNoted_Unguarded(agentId, text, always) ==
    IF agentId \notin DOMAIN sessions \/ ~hasMessages(sessions[agentId])
    THEN UNCHANGED <<StoreVars, GatewayVars>> /\ Note(Op("sendMessage", <<agentId, text>>), always)
    ELSE /\ Len(calls) < MaxCalls
         /\ LET session == sessions[agentId]
                userMsg == Message(makeId(Store), "user", text, FALSE, Undefined)
            IN Commit([Store EXCEPT
                        !.idCounter = @ + 1,
                        !.sessions[agentId] =
                            Spread(session,
                                   [messages |-> Append(session.messages, userMsg),
                                    status |-> "thinking"])])
         /\ calls' = Append(calls, PendingCall(makeId(Store), "runAgent", agentId))
         /\ UNCHANGED <<GatewayVars, config, columnOrder, gatewayConnected, client, clientConnected>>
         /\ Record(Sent(Op("sendMessage", <<agentId, text>>),
                        <<Request(makeId(Store), "runAgent",
                                  <<"main", text, ColumnKey(agentId)>>)>>))

sendMessageNoted(agentId, text, always) ==
    IF ~(client # Null /\ clientConnected) \/ agentId \notin DOMAIN sessions
       \/ ~hasMessages(sessions[agentId])
    THEN UNCHANGED <<StoreVars, GatewayVars>> /\ Note(Op("sendMessage", <<agentId, text>>), always)
    ELSE /\ Len(calls) < MaxCalls
         /\ LET session == sessions[agentId]
                userMsg == Message(makeId(Store), "user", text, FALSE, Undefined)
            IN Commit([Store EXCEPT
                        !.idCounter = @ + 1,
                        !.sessions[agentId] =
                            Spread(session,
                                   [messages |-> Append(session.messages, userMsg),
                                    status |-> "thinking"])])
         /\ calls' = Append(calls, PendingCall(makeId(Store), "runAgent", agentId))
         /\ UNCHANGED <<GatewayVars, config, columnOrder, gatewayConnected, client, clientConnected>>
         /\ Record(Sent(Op("sendMessage", <<agentId, text>>),
                        <<Request(makeId(Store), "runAgent",
                                  <<"main", text, ColumnKey(agentId)>>)>>))

sendMessage(agentId, text) == sendMessageNoted(agentId, text, FALSE)

\* sendMessage, noted also when it returns at once
sendMessageLogged(agentId, text) == sendMessageNoted(agentId, text, TRUE)

\* A faulty catch block, which leaves the column as it is.
sendMessageCatch_Silent(st, agentId) == st

\* the catch block of sendMessage
sendMessageCatch(st, agentId) ==
    [st EXCEPT !.sessions = Put(st.sessions, agentId,
                                Spread(sessionOrEmpty(st, agentId), [status |-> "error"])),
               !.sessionKeys = PutKey(st.sessionKeys, agentId)]

\* A faulty continuation, which puts the placeholder before the messages.
sendMessageResolved_First(st, agentId, runId) ==
    IF agentId \in DOMAIN st.sessions /\ hasMessages(st.sessions[agentId])
    THEN LET session == st.sessions[agentId]
             assistantMsg == Message(makeId(st), "assistant", <<>>, TRUE, runId)
         IN [st EXCEPT !.idCounter = @ + 1,
                       !.sessions[agentId] =
                            Spread(session,
                                   [messages |-> <<assistantMsg>> \o session.messages,
                                    activeRunId |-> runId,
                                    status |-> "streaming"])]
    ELSE [st EXCEPT !.sessions = Put(st.sessions, agentId,
                                     Spread(sessionOrEmpty(st, agentId), [status |-> "error"])),
                    !.sessionKeys = PutKey(st.sessionKeys, agentId)]

\* sendMessage after runAgent resolved with runId: the placeholder; a
\* TypeError of the set() callback is caught by the catch block
sendMessageResolved(st, agentId, runId) ==
    IF agentId \in DOMAIN st.sessions /\ hasMessages(st.sessions[agentId])
    THEN LET session == st.sessions[agentId]
             assistantMsg == Message(makeId(st), "assistant", <<>>, TRUE, runId)
         IN [st EXCEPT !.idCounter = @ + 1,
                       !.sessions[agentId] =
                            Spread(session,
                                   [messages |-> Append(session.messages, assistantMsg),
                                    activeRunId |-> runId,
                                    status |-> "streaming"])]
    ELSE sendMessageCatch(st, agentId)

\* The response of the i-th request in flight arrives with a runId.
RunAgentResolves(i, runId) ==
    /\ i \in 1..Len(calls)
    /\ calls[i].method = "runAgent"
    /\ clientConnected
    /\ Commit(sendMessageResolved(Store, calls[i].agentId, runId))
    /\ calls' = RemoveAt(calls, i)
    /\ UNCHANGED <<GatewayVars, config, columnOrder, gatewayConnected, client, clientConnected>>
    /\ Record(Op("runAgentResolves", <<calls[i].agentId, runId>>))

\* The i-th request in flight is rejected: an error response, or the
\* connection was lost.
RunAgentRejects(i) ==
    /\ i \in 1..Len(calls)
    /\ calls[i].method = "runAgent"
    /\ Commit(sendMessageCatch(Store, calls[i].agentId))
    /\ calls' = RemoveAt(calls, i)
    /\ UNCHANGED <<GatewayVars, config, columnOrder, gatewayConnected, client, clientConnected>>
    /\ Record(Op("runAgentRejects", <<calls[i].agentId>>))

\* The request frame with this id is in flight.
Pending(id) == \E i \in 1..Len(calls) : calls[i].id = id

\* The call that registered the id.
CallOf(id) == CHOOSE i \in 1..Len(calls) : calls[i].id = id

\* A faulty table, which settles the oldest call whatever the id.
resolve_Oldest(id, runId) ==
    /\ clientConnected
    /\ IF calls # <<>>
       THEN /\ Commit(sendMessageResolved(Store, calls[1].agentId, runId))
            /\ calls' = Tail(calls)
            /\ UNCHANGED <<GatewayVars, config, columnOrder, gatewayConnected, client, clientConnected>>
       ELSE UNCHANGED <<StoreVars, GatewayVars>>
    /\ Log(Op("resolve", <<id, runId>>))

\* A response frame {id, ok: true, payload: {runId}} arrives: the table
\* resolves the call that registered the id and forgets it; for an id that
\* is not pending it does nothing.
resolve(id, runId) ==
    /\ clientConnected
    /\ IF Pending(id) /\ calls[CallOf(id)].method = "runAgent"
       THEN /\ Commit(sendMessageResolved(Store, calls[CallOf(id)].agentId, runId))
            /\ calls' = RemoveAt(calls, CallOf(id))
            /\ UNCHANGED <<GatewayVars, config, columnOrder, gatewayConnected, client, clientConnected>>
       ELSE UNCHANGED <<StoreVars, GatewayVars>>
    /\ Log(Op("resolve", <<id, runId>>))

\* A response frame {id, ok: false} arrives.
reject(id) ==
    /\ clientConnected
    /\ IF Pending(id) /\ calls[CallOf(id)].method = "runAgent"
       THEN /\ Commit(sendMessageCatch(Store, calls[CallOf(id)].agentId))
            /\ calls' = RemoveAt(calls, CallOf(id))
            /\ UNCHANGED <<GatewayVars, config, columnOrder, gatewayConnected, client, clientConnected>>
       ELSE UNCHANGED <<StoreVars, GatewayVars>>
    /\ Log(Op("reject", <<id>>))


\* The catch blocks of the sendMessage calls among pending, in their order.
RECURSIVE catchAll(_, _)
catchAll(st, pending) ==
    IF pending = <<>> THEN st
    ELSE catchAll(IF Head(pending).method = "runAgent"
                  THEN sendMessageCatch(st, Head(pending).agentId)
                  ELSE st,
                  Tail(pending))

\* cancelAll, which the client invokes when it leaves the connected state:
\* every request in flight is rejected with a connectivity error, and the
\* catch block of each sendMessage that awaited one runs.  The callers of
\* createAgent and deleteAgent go on in AgentRequestSettles.
Rejected ==
    /\ ~clientConnected
    /\ \E i \in 1..Len(calls) : calls[i].method = "runAgent"
    /\ Commit(catchAll(Store, calls))
    /\ calls' = SelectSeq(calls, LAMBDA call : call.method # "runAgent")
    /\ UNCHANGED <<GatewayVars, config, columnOrder, gatewayConnected, client, clientConnected>>

cancelAll ==
    /\ Rejected
    /\ Log(Op("cancelAll", <<[i \in 1..Len(calls) |-> calls[i].agentId]>>))

\* onConnection(connected), the callback initialize gives the client; when
\* connected it calls fetchAvailableModels, which sends its request
onConnection(connected) ==
    /\ client # Null
    /\ clientConnected # connected
    /\ clientConnected' = connected
    /\ gatewayConnected' = connected
    /\ sessions' = IF connected
                   THEN [id \in DOMAIN sessions |-> Spread(sessions[id], [connected |-> TRUE])]
                   ELSE sessions
    /\ UNCHANGED <<GatewayVars, config, sessionKeys, columnOrder, client, subagentMessages, storage,
                   calls, idCounter>>
    /\ Record(IF connected
              THEN Sent(Op("onConnection", <<connected>>),
                        <<Request(0, "listModels", <<>>)>>)
              ELSE Op("onConnection", <<connected>>))

\* disconnect(): the messages are saved, the client is told to disconnect and
\* is forgotten; no session is written
disconnect ==
    /\ Commit(saveMessages(Store, sessions))
    /\ client' = Null
    /\ clientConnected' = FALSE
    /\ gatewayConnected' = FALSE
    /\ UNCHANGED <<GatewayVars, config, columnOrder, calls>>
    /\ Record(Op("disconnect", <<>>))

\* sendSubagentMessage: the user message goes into the log at once; the
\* sessions.send request is awaited and its outcome only logged to the console
sendSubagentMessageNoted(sessionKey, text, always) ==
    IF ~(client # Null /\ clientConnected)
    THEN UNCHANGED <<StoreVars, GatewayVars>> /\ Note(Op("sendSubagentMessage", <<sessionKey, text>>), always)
    ELSE /\ LET userMsg == Message(makeId(Store), "user", text, FALSE, Undefined)
            IN Commit([Store EXCEPT
                        !.idCounter = @ + 1,
                        !.subagentMessages[sessionKey] = Append(@, userMsg)])
         /\ UNCHANGED <<GatewayVars, config, columnOrder, gatewayConnected, client, clientConnected,
                        calls>>
         /\ Record(Sent(Op("sendSubagentMessage", <<sessionKey, text>>),
                        <<Request(0, "sessions.send", <<sessionKey, text>>)>>))

sendSubagentMessage(sessionKey, text) == sendSubagentMessageNoted(sessionKey, text, FALSE)

\* sendSubagentMessage, noted also when it returns at once
sendSubagentMessageLogged(sessionKey, text) ==
    sendSubagentMessageNoted(sessionKey, text, TRUE)

\* fetchAvailableModels: the list it stores is not part of the model
fetchAvailableModels ==
    /\ UNCHANGED <<StoreVars, GatewayVars>>
    /\ Log(IF client # Null /\ clientConnected
           THEN Sent(Op("fetchAvailableModels", <<>>), <<Request(0, "listModels", <<>>)>>)
           ELSE Op("fetchAvailableModels", <<>>))

\* refreshGatewaySessions up to its await: the request goes to the client when
\* it is connected; what follows the await is ListSessionsResolves/Rejects.
refreshGatewaySessions ==
    /\ UNCHANGED <<StoreVars, GatewayVars>>
    /\ Log(IF client # Null /\ clientConnected
           THEN Sent(Op("refreshGatewaySessions", <<>>), <<Request(0, "listSessions", <<>>)>>)
           ELSE Op("refreshGatewaySessions", <<>>))

RECURSIVE pushNew(_, _)
\* The subagent column order after a listing: the keys of the active
\* subagent sessions are pushed onto the order when it does not hold them,
\* and the keys that no subagent session of the listing has are filtered out.
pushNew(order, keys) ==
    IF keys = <<>> THEN order
    ELSE pushNew(IF Head(keys) \in Range(order) THEN order ELSE Append(order, Head(keys)),
                 Tail(keys))

\* A faulty merge, which appends every active key.
filteredOrder_PushAll(currentOrder, listed) ==
    LET subagentSessions == SelectSeq(listed, isSubagent)
        isActive(s) == s.active \/ s.status \in {"running", "streaming", "thinking"}
        active == SelectSeq(subagentSessions, isActive)
        activeSubagentKeys == [i \in 1..Len(active) |-> active[i].key]
        newOrder == currentOrder \o activeSubagentKeys
        allSubagentKeys == {s.key : s \in Range(subagentSessions)}
        has(key) == key \in allSubagentKeys
    IN SelectSeq(newOrder, has)

filteredOrder(currentOrder, listed) ==
    LET subagentSessions == SelectSeq(listed, isSubagent)
        isActive(s) == s.active \/ s.status \in {"running", "streaming", "thinking"}
        active == SelectSeq(subagentSessions, isActive)
        activeSubagentKeys == [i \in 1..Len(active) |-> active[i].key]
        newOrder == pushNew(currentOrder, activeSubagentKeys)
        allSubagentKeys == {s.key : s \in Range(subagentSessions)}
        has(key) == key \in allSubagentKeys
    IN SelectSeq(newOrder, has)

\* refreshGatewaySessions after its await: client.listSessions() resolved
\* with the sessions listed, at time now.  The order is read after the await.
ListSessionsResolves(listed, now) ==
    /\ client # Null
    /\ lastSubagentPoll # None => now >= lastSubagentPoll[1]
    /\ gatewaySessions' = listed
    /\ subagentColumnOrder' = filteredOrder(subagentColumnOrder, listed)
    /\ lastSubagentPoll' = Some(now)
    /\ UNCHANGED StoreVars
    /\ Log(Op("listSessionsResolves", <<listed, now>>))

\* client.listSessions() rejected: the catch block warns and sets nothing.
ListSessionsRejects ==
    /\ client # Null
    /\ UNCHANGED <<StoreVars, GatewayVars>>
    /\ Log(Op("listSessionsRejects", <<>>))

addSubagentColumn(sessionKey) ==
    /\ subagentColumnOrder' =
            IF sessionKey \in Range(subagentColumnOrder) THEN subagentColumnOrder
            ELSE Append(subagentColumnOrder, sessionKey)
    /\ UNCHANGED <<StoreVars, gatewaySessions, lastSubagentPoll>>
    /\ Log(Op("addSubagentColumn", <<sessionKey>>))

removeSubagentColumn(sessionKey) ==
    /\ subagentColumnOrder' =
            LET keeps(k) == k # sessionKey IN SelectSeq(subagentColumnOrder, keeps)
    /\ UNCHANGED <<StoreVars, gatewaySessions, lastSubagentPoll>>
    /\ Log(Op("removeSubagentColumn", <<sessionKey>>))

\* updateAgentModel: the model of an agent is not part of the model; the
\* request is not awaited
updateAgentModel(agentId, model) ==
    /\ UNCHANGED <<StoreVars, GatewayVars>>
    /\ Log(IF client # Null /\ clientConnected
           THEN Sent(Op("updateAgentModel", <<agentId, model>>),
                     <<Request(0, "updateAgent", <<agentId, model>>)>>)
           ELSE Op("updateAgentModel", <<agentId, model>>))

\* createAgentOnGateway: with a connected client the request is awaited and
\* the column is added when it is settled, otherwise the column is added at once
createAgentOnGateway(agentId) ==
    IF client # Null /\ clientConnected
    THEN /\ Len(calls) < MaxCalls
         /\ idCounter < MaxIds
         /\ calls' = Append(calls, PendingCall(makeId(Store), "createAgent", agentId))
         /\ idCounter' = idCounter + 1
         /\ UNCHANGED <<GatewayVars, config, sessions, sessionKeys, columnOrder, gatewayConnected,
                        client, clientConnected, subagentMessages, storage>>
         /\ Log(Sent(Op("createAgentOnGateway", <<agentId>>),
                     <<Request(makeId(Store), "createAgent", <<agentId>>)>>))
    ELSE /\ addAgentSet(agentId)
         /\ UNCHANGED <<GatewayVars, gatewayConnected, client, clientConnected, subagentMessages,
                        storage, calls, idCounter>>
         /\ Log(Op("createAgentOnGateway", <<agentId>>))

\* deleteAgentOnGateway: as createAgentOnGateway, with removeAgent
deleteAgentOnGateway(agentId) ==
    IF client # Null /\ clientConnected
    THEN /\ Len(calls) < MaxCalls
         /\ idCounter < MaxIds
         /\ calls' = Append(calls, PendingCall(makeId(Store), "deleteAgent", agentId))
         /\ idCounter' = idCounter + 1
         /\ UNCHANGED <<GatewayVars, config, sessions, sessionKeys, columnOrder, gatewayConnected,
                        client, clientConnected, subagentMessages, storage>>
         /\ Log(Sent(Op("deleteAgentOnGateway", <<agentId>>),
                     <<Request(makeId(Store), "deleteAgent", <<agentId>>)>>))
    ELSE /\ removeAgentSet(agentId)
         /\ UNCHANGED <<GatewayVars, gatewayConnected, client, clientConnected, subagentMessages,
                        storage, calls, idCounter>>
         /\ Log(Op("deleteAgentOnGateway", <<agentId>>))

\* The createAgent or deleteAgent request in flight is settled, resolved or
\* rejected: the column is added or removed either way.
AgentRequestSettles(i) ==
    /\ i \in 1..Len(calls)
    /\ calls[i].method \in {"createAgent", "deleteAgent"}
    /\ IF calls[i].method = "createAgent"
       THEN addAgentSet(calls[i].agentId)
       ELSE removeAgentSet(calls[i].agentId)
    /\ calls' = RemoveAt(calls, i)
    /\ UNCHANGED <<GatewayVars, gatewayConnected, client, clientConnected, subagentMessages,
                   storage, idCounter>>
    /\ Log(Op("agentRequestSettles", <<calls[i].method, calls[i].agentId>>))

(***************************************************************************)
(* The inputs of the model.                                                *)
(***************************************************************************)
\* A listing of the gateway with the two subagents running.
BothListed ==
    <<GatewaySession(SubagentKeyA, TRUE, "running", Undefined),
      GatewaySession(SubagentKeyB, TRUE, "running", Undefined)>>

AgentEventsFor(keys, runs, deltas) ==
    {AgentEvent(k, r, "assistant", d, Undefined) : k \in keys, r \in runs, d \in deltas}
    \cup {AgentEvent(k, r, "lifecycle", <<>>, ph) :
            k \in keys, r \in runs, ph \in {"start", "end"}}
    \cup {AgentEvent(k, r, "tool_use", <<>>, Undefined) : k \in keys, r \in runs}

ChatMessageInput(id, role, text, runId) ==
    [id |-> id, role |-> role, text |-> text, content |-> <<>>, runId |-> runId]

Init ==
    /\ config = <<>>
    /\ sessions = [id \in {} |-> 0]
    /\ sessionKeys = <<>>
    /\ columnOrder = <<>>
    /\ gatewayConnected = FALSE
    /\ client = Null
    /\ clientConnected = FALSE
    /\ subagentMessages = [k \in SubagentKeys |-> <<>>]
    /\ storage = None
    /\ calls = <<>>
    /\ idCounter = 0
    /\ gatewaySessions = <<>>
    /\ subagentColumnOrder = <<>>
    /\ lastSubagentPoll = None
    /\ last = Op("create", <<>>)

(***************************************************************************)
(* Spec: the column router.  Column col-a chats through its session key    *)
(* "agent:main:col-a" and the gateway streams the runs into it; columns    *)
(* come and go meanwhile.                                                  *)
(***************************************************************************)
Next ==
    \/ \E agents \in {<<"col-a", "subagent">>} : initialize(agents)
    \/ \E c \in ColumnIds : removeAgent(c)
    \/ \E c \in ColumnIds \ Range(config) : addAgent(c)
    \/ \E c \in {"col-a"} : sendMessage(c, UserText)
    \/ \E i \in 1..MaxCalls, r \in RunIds : RunAgentResolves(i, r)
    \/ \E i \in 1..MaxCalls : RunAgentRejects(i)
    \/ onConnection(TRUE)
    \/ \E e \in AgentEventsFor({ColumnKey("col-a")}, RunIds, Deltas) :
            HandleGatewayEvent(e)

Spec == Init /\ [][Next]_vars

(***************************************************************************)
(* SpecAssign: columns are added, removed, assigned to subagents and       *)
(* unassigned through the store's actions, called in any order and with    *)
(* any key, while a subagent streams.                                      *)
(***************************************************************************)
NextAssign ==
    \/ \E agents \in {<<"col-a", "subagent">>} : initialize(agents)
    \/ \E c \in ColumnIds : addAgent(c)
    \/ \E c \in ColumnIds : removeAgent(c)
    \/ \E c \in ColumnIds, k \in SubagentKeys : AssignSubagentToColumn(c, k)
    \/ \E c \in ColumnIds : UnassignSubagentFromColumn(c)
    \/ \E e \in {AgentEvent(SubagentKeyA, "r1", "assistant", lo, Undefined)} :
            HandleGatewayEvent(e)
    \/ ListSessionsResolves(BothListed, 1)

SpecAssign == Init /\ [][NextAssign]_vars

(***************************************************************************)
(* SpecDelegation: columns are delegated to subagents through their menus  *)
(* and removed while subagent abc123 streams two runs.                     *)
(***************************************************************************)
NextDelegation ==
    \/ \E agents \in {<<"col-a", "subagent">>} : initialize(agents)
    \/ \E c \in ColumnIds : removeAgent(c)
    \/ \E c \in ColumnIds, k \in SubagentKeys : assign(c, k)
    \/ \E c \in ColumnIds : unassign(c)
    \/ \E e \in AgentEventsFor({SubagentKeyA}, RunIds, {lo}) : HandleGatewayEvent(e)
    \/ ListSessionsResolves(BothListed, 1)

SpecDelegation == Init /\ [][NextDelegation]_vars

(***************************************************************************)
(* SpecLog: the logs of two subagents fill while column col-a starts and   *)
(* stops watching the first.                                               *)
(***************************************************************************)
NextLog ==
    \/ \E agents \in {<<"col-a">>} : initialize(agents)
    \/ assign("col-a", SubagentKeyA)
    \/ unassign("col-a")
    \/ \E e \in {AgentEvent(SubagentKeyA, r, "assistant", lo, Undefined) : r \in RunIds}
            \cup {AgentEvent(SubagentKeyA, r, "lifecycle", <<>>, "end") : r \in RunIds}
            \cup {AgentEvent(SubagentKeyB, "r1", "assistant", lo, Undefined),
                  AgentEvent(SubagentKeyB, "r1", "lifecycle", <<>>, "end")} :
            HandleGatewayEvent(e)
    \/ ListSessionsResolves(BothListed, 1)

SpecLog == Init /\ [][NextLog]_vars

(***************************************************************************)
(* SpecChat: the gateway reports the stream of subagent abc123 in agent    *)
(* events and its messages in chat events, in any order.                   *)
(***************************************************************************)
ChatIds == {0, 101}

ChatEvents ==
    {ChatEvent(SubagentKeyA, Some(ChatMessageInput(id, role, UserText, runId))) :
        id \in ChatIds, role \in {"assistant", "user"}, runId \in {"r1", Undefined}}

NextChat ==
    \/ \E e \in {AgentEvent(SubagentKeyA, "r1", "assistant", lo, Undefined),
                 AgentEvent(SubagentKeyA, "r1", "lifecycle", <<>>, "end")} :
            HandleGatewayEvent(e)
    \/ \E e \in ChatEvents : HandleGatewayEventLogged(e)

SpecChat == Init /\ [][NextChat]_vars

(***************************************************************************)
(* SpecStale: column "subagent" is removed while calls and gateway events  *)
(* aimed at it keep arriving.                                              *)
(***************************************************************************)
StaleEvents ==
    {AgentEvent(ColumnKey("subagent"), "r1", "assistant", lo, Undefined),
     AgentEvent(ColumnKey("subagent"), "r1", "lifecycle", <<>>, "start"),
     AgentEvent(ColumnKey("subagent"), "r1", "lifecycle", <<>>, "end"),
     CompactionEvent(ColumnKey("subagent"), Some(4), Some(2), None),
     UsageEvent(ColumnKey("subagent"), Some([totalTokens |-> 3])),
     PresenceEvent(Some([id \in {"subagent"} |-> [online |-> FALSE]]))}

NextStale ==
    \/ \E agents \in {<<"col-a", "subagent">>} : initialize(agents)
    \/ \E c \in ColumnIds : removeAgent(c)
    \/ SetAgentStatus("subagent", "thinking")
    \/ AppendMessageChunk("subagent", "r1", lo)
    \/ FinalizeMessage("subagent", "r1")
    \/ ClearMessageHistoryLogged("subagent")
    \/ AssignSubagentToColumnLogged("subagent", SubagentKeyA)
    \/ UnassignSubagentFromColumnLogged("subagent")
    \/ \E e \in StaleEvents : HandleGatewayEventLogged(e)

SpecStale == Init /\ [][NextStale]_vars

(***************************************************************************)
(* SpecChatFrame: chat events arrive for subagent abc123, which column     *)
(* col-a watches at times, for the key of col-a itself, without a key and  *)
(* without a message.                                                      *)
(***************************************************************************)
FrameChatEvents ==
    {ChatEvent(SubagentKeyA, Some(ChatMessageInput(id, role, UserText, Undefined))) :
        id \in ChatIds, role \in {"assistant", "user"}}
    \cup {ChatEvent(k, Some(ChatMessageInput(101, "user", UserText, Undefined))) :
            k \in {ColumnKey("col-a"), NoKey}}
    \cup {ChatEvent(SubagentKeyA, None)}

NextChatFrame ==
    \/ \E agents \in {<<"col-a">>} : initialize(agents)
    \/ assign("col-a", SubagentKeyA)
    \/ unassign("col-a")
    \/ HandleGatewayEvent(AgentEvent(SubagentKeyA, "r1", "assistant", lo, Undefined))
    \/ \E e \in FrameChatEvents : HandleGatewayEventLogged(e)
    \/ ListSessionsResolves(BothListed, 1)

SpecChatFrame == Init /\ [][NextChatFrame]_vars

(***************************************************************************)
(* SpecSubagentSend: the user writes into the session of subagent abc123   *)
(* from its column while the gateway reports the messages of that session  *)
(* in chat events.                                                         *)
(***************************************************************************)
NextSubagentSend ==
    \/ \E agents \in {<<"col-a">>} : initialize(agents)
    \/ \E connected \in BOOLEAN : onConnection(connected)
    \/ sendSubagentMessage(SubagentKeyA, UserText)
    \/ HandleGatewayEvent(AgentEvent(SubagentKeyA, "r1", "assistant", lo, Undefined))
    \/ \E id \in ChatIds, role \in {"assistant", "user"} :
            HandleGatewayEvent(
                ChatEvent(SubagentKeyA, Some(ChatMessageInput(id, role, UserText, Undefined))))

SpecSubagentSend == Init /\ [][NextSubagentSend]_vars

(***************************************************************************)
(* SpecEvents: column col-a chats and streams while the gateway reports    *)
(* presence, compaction and usage for it, ticks, and sends an event of a   *)
(* name the store does not know.                                           *)
(***************************************************************************)
PresenceEvents ==
    {PresenceEvent(Some([id \in {"col-a", "main"} |-> [online |-> b]])) : b \in BOOLEAN}
    \cup {PresenceEvent(None)}

UsageEvents ==
    {UsageEvent(ColumnKey("col-a"), Some([totalTokens |-> 3])),
     UsageEvent(ColumnKey("col-a"), None)}

NextEvents ==
    \/ \E agents \in {<<"col-a", "subagent">>} : initialize(agents)
    \/ onConnection(TRUE)
    \/ sendMessage("col-a", UserText)
    \/ RunAgentResolves(1, "r1")
    \/ RunAgentRejects(1)
    \/ \E e \in {AgentEvent(ColumnKey("col-a"), "r1", "assistant", lo, Undefined),
                 AgentEvent(ColumnKey("col-a"), "r1", "tool_use", <<>>, Undefined),
                 AgentEvent(ColumnKey("col-a"), "r1", "lifecycle", <<>>, "end")} :
            HandleGatewayEvent(e)
    \/ \E e \in PresenceEvents : HandleGatewayEvent(e)
    \/ HandleGatewayEvent(CompactionEvent(ColumnKey("col-a"), Some(4), Some(2), None))
    \/ \E e \in UsageEvents : HandleGatewayEvent(e)
    \/ \E e \in {TickEvent, OtherEvent("health")} : HandleGatewayEventLogged(e)

SpecEvents == Init /\ [][NextEvents]_vars

(***************************************************************************)
(* SpecRouting: agent events arrive with the key of col-a, with a key of   *)
(* two segments, without a key and with the key of subagent abc123, which  *)
(* col-a watches at times; there is a column named main.                   *)
(***************************************************************************)
RoutingKeys == {ColumnKey("col-a"), <<"agent", "col-a">>, NoKey, SubagentKeyA}

NextRouting ==
    \/ \E agents \in {<<"col-a", "main">>} : initialize(agents)
    \/ assign("col-a", SubagentKeyA)
    \/ unassign("col-a")
    \/ \E k \in RoutingKeys :
        \E e \in {AgentEvent(k, "r1", "assistant", lo, Undefined),
                  AgentEvent(k, "r1", "lifecycle", <<>>, "end")} :
            HandleGatewayEvent(e)
    \/ ListSessionsResolves(BothListed, 1)

SpecRouting == Init /\ [][NextRouting]_vars

(***************************************************************************)
(* SpecKeys: two columns, a and a:b, send messages; the gateway answers    *)
(* with agent, compaction and sessions.usage events under the session keys *)
(* sendMessage built for them.                                             *)
(***************************************************************************)
KeyColumns == {"a", "a:b"}

KeyEvents ==
    UNION {{AgentEvent(ColumnKey(c), "r1", "assistant", lo, Undefined),
            AgentEvent(ColumnKey(c), "r1", "lifecycle", <<>>, "end"),
            CompactionEvent(ColumnKey(c), Some(4), Some(2), None),
            UsageEvent(ColumnKey(c), Some([totalTokens |-> 3]))} : c \in KeyColumns}

NextKeys ==
    \/ \E agents \in {<<"a", "a:b">>} : initialize(agents)
    \/ onConnection(TRUE)
    \/ \E c \in KeyColumns : sendMessage(c, UserText)
    \/ RunAgentResolves(1, "r1")
    \/ RunAgentRejects(1)
    \/ \E e \in KeyEvents : HandleGatewayEvent(e)

SpecKeys == Init /\ [][NextKeys]_vars

(***************************************************************************)
(* SpecConnection: the connection of col-a's gateway comes and goes while  *)
(* the column sends a message and its run streams.                         *)
(***************************************************************************)
NextConnection ==
    \/ \E agents \in {<<"col-a">>} : initialize(agents)
    \/ \E connected \in BOOLEAN : onConnection(connected)
    \/ disconnect
    \/ sendMessage("col-a", UserText)
    \/ RunAgentResolves(1, "r1")
    \/ RunAgentRejects(1)
    \/ \E e \in {AgentEvent(ColumnKey("col-a"), "r1", "assistant", lo, Undefined),
                 AgentEvent(ColumnKey("col-a"), "r1", "lifecycle", <<>>, "end")} :
        HandleGatewayEvent(e)

SpecConnection == Init /\ [][NextConnection]_vars

(***************************************************************************)
(* SpecOffline: every outbound call of the store is made with the client   *)
(* connected, not connected and absent (before initialize and after        *)
(* disconnect).                                                            *)
(***************************************************************************)
NextOffline ==
    \/ \E agents \in {<<"col-a">>} : initialize(agents)
    \/ \E connected \in BOOLEAN : onConnection(connected)
    \/ disconnect
    \/ sendMessageLogged("col-a", UserText)
    \/ sendSubagentMessageLogged(SubagentKeyA, UserText)
    \/ fetchAvailableModels
    \/ refreshGatewaySessions
    \/ updateAgentModel("col-a", "opus")
    \/ createAgentOnGateway("subagent")
    \/ deleteAgentOnGateway("subagent")
    \/ \E i \in 1..MaxCalls : AgentRequestSettles(i)
    \/ \E i \in 1..MaxCalls : RunAgentResolves(i, "r1")
    \/ \E i \in 1..MaxCalls : RunAgentRejects(i)

SpecOffline == Init /\ [][NextOffline]_vars

(***************************************************************************)
(* SpecDrop: columns col-a and subagent send messages, and the connection  *)
(* is lost while their requests are in flight.  The client invokes         *)
(* cancelAll when it leaves the connected state, before it connects again; *)
(* the rejections reach the callers as soon as the handler that lost the   *)
(* connection returns, which the fairness condition states.                *)
(***************************************************************************)
NextDrop ==
    \/ \E agents \in {<<"col-a", "subagent">>} : initialize(agents)
    \/ onConnection(FALSE)
    \/ calls = <<>> /\ onConnection(TRUE)
    \/ disconnect
    \/ cancelAll
    \/ \E c \in ColumnIds : sendMessage(c, UserText)
    \/ \E i \in 1..MaxCalls : RunAgentResolves(i, "r1")
    \/ \E i \in 1..MaxCalls : RunAgentRejects(i)

SpecDrop == Init /\ [][NextDrop]_vars /\ WF_StoreVars(Rejected)

(***************************************************************************)
(* SpecCorrelation: col-a and subagent send messages concurrently, and the *)
(* response frames arrive in any order, late, twice, or with an id that no *)
(* call registered.                                                        *)
(***************************************************************************)
ResponseIds == 1..(MaxIds + 1)

NextCorrelation ==
    \/ \E agents \in {<<"col-a", "subagent">>} : initialize(agents)
    \/ calls = <<>> /\ onConnection(TRUE)
    \/ \E c \in ColumnIds : sendMessage(c, UserText)
    \/ \E id \in ResponseIds : resolve(id, "r1")
    \/ \E id \in ResponseIds : reject(id)

SpecCorrelation == Init /\ [][NextCorrelation]_vars

(***************************************************************************)
(* SpecStream: column col-a chats and is assigned to subagent abc123,      *)
(* while the gateway streams runs into the column and into the log of the  *)
(* subagent, and ends them.  A run is one streamed                         *)
(* response: the runId that answers a runAgent request is the runId of no  *)
(* message the store holds.                                                *)
(***************************************************************************)
FreshRun(runId) ==
    /\ \A c \in DOMAIN sessions :
            hasMessages(sessions[c]) =>
                \A i \in 1..Len(sessions[c].messages) : sessions[c].messages[i].runId # runId
    /\ \A k \in DOMAIN subagentMessages :
            \A i \in 1..Len(subagentMessages[k]) : subagentMessages[k][i].runId # runId

NextStream ==
    \/ \E agents \in {<<"col-a">>} : initialize(agents)
    \/ onConnection(TRUE)
    \/ sendMessage("col-a", UserText)
    \/ \E i \in 1..MaxCalls, r \in RunIds : FreshRun(r) /\ RunAgentResolves(i, r)
    \/ AssignSubagentToColumn("col-a", SubagentKeyA)
    \/ \E k \in {ColumnKey("col-a"), SubagentKeyA}, r \in RunIds :
            \/ HandleGatewayEvent(AgentEvent(k, r, "assistant", lo, Undefined))
            \/ HandleGatewayEvent(AgentEvent(k, r, "lifecycle", <<>>, "end"))

SpecStream == Init /\ [][NextStream]_vars

(***************************************************************************)
(* SpecColumns: columns are configured, added, removed and reordered       *)
(* through the store's actions, called in any order and with any           *)
(* argument, while col-a chats.                                            *)
(***************************************************************************)
NextColumns ==
    \/ \E agents \in {<<"col-a">>, <<"col-a", "subagent">>} : initialize(agents)
    \/ \E c \in ColumnIds : addAgent(c)
    \/ \E c \in ColumnIds : removeAgent(c)
    \/ \E order \in {<<>>} \cup {<<c>> : c \in ColumnIds}
                        \cup {<<c, d>> : c, d \in ColumnIds} : reorderColumns(order)
    \/ onConnection(TRUE)
    \/ sendMessage("col-a", UserText)
    \/ RunAgentResolves(1, "r1")

SpecColumns == Init /\ [][NextColumns]_vars

(***************************************************************************)
(* SpecReload: the columns chat, the run of subagent ends, col-a may be    *)
(* removed, and the deck is closed (disconnect saves the messages) and set *)
(* up again from what was saved.                                           *)
(***************************************************************************)
NextReload ==
    \/ \E agents \in {<<"col-a", "subagent">>, <<"subagent">>} : initialize(agents)
    \/ onConnection(TRUE)
    \/ disconnect
    \/ removeAgent("col-a")
    \/ \E c \in ColumnIds : sendMessage(c, UserText)
    \/ \E i \in 1..MaxCalls : RunAgentResolves(i, "r1")
    \/ HandleGatewayEvent(AgentEvent(ColumnKey("subagent"), "r1", "lifecycle", <<>>, "end"))

SpecReload == Init /\ [][NextReload]_vars

(***************************************************************************)
(* SpecClear: the history of a column is cleared while a run streams into  *)
(* it, a run of its own chat or a run of the session it watches.           *)
(***************************************************************************)
NextClear ==
    \/ \E agents \in {<<"col-a", "subagent">>} : initialize(agents)
    \/ onConnection(TRUE)
    \/ sendMessage("col-a", UserText)
    \/ RunAgentResolves(1, "r1")
    \/ \E k \in {SubagentKeyA, ChildKey} : AssignSubagentToColumn("col-a", k)
    \/ \E c \in ColumnIds : ClearMessageHistory(c)
    \/ \E k \in {ColumnKey("col-a"), SubagentKeyA, ChildKey} :
            \/ HandleGatewayEvent(AgentEvent(k, "r1", "assistant", lo, Undefined))
            \/ HandleGatewayEvent(AgentEvent(k, "r1", "lifecycle", <<>>, "end"))

SpecClear == Init /\ [][NextClear]_vars

(***************************************************************************)
(* SpecSessions: the deck polls the gateway for its sessions while         *)
(* subagent columns are added and removed by hand.                         *)
(***************************************************************************)
\* The sessions a listing may hold: a subagent running and the same idle, a
\* subagent that only thinks, a session with a parent, and the session of a
\* column.
ListedSessions ==
    {GatewaySession(SubagentKeyA, FALSE, "running", Undefined),
     GatewaySession(SubagentKeyA, FALSE, "idle", Undefined),
     GatewaySession(SubagentKeyB, FALSE, "thinking", Undefined),
     GatewaySession(ChildKey, TRUE, "idle", "agent:main:main"),
     GatewaySession(ColumnKey("col-a"), TRUE, "running", Undefined)}

Listings == UNION {[1..n -> ListedSessions] : n \in 0..MaxListed}

\* Date.now() at the responses
Times == 1..2

NextSessions ==
    \/ \E agents \in {<<"col-a">>} : initialize(agents)
    \/ onConnection(TRUE)
    \/ refreshGatewaySessions
    \/ \E listed \in Listings, now \in Times : ListSessionsResolves(listed, now)
    \/ ListSessionsRejects
    \/ \E k \in {SubagentKeyA, ColumnKey("col-a")} : addSubagentColumn(k)
    \/ \E k \in {SubagentKeyA, ColumnKey("col-a")} : removeSubagentColumn(k)

SpecSessions == Init /\ [][NextSessions]_vars

(***************************************************************************)
(* SpecMenu: two columns pick subagents from their menus, which follow     *)
(* the listings of the gateway.                                            *)
(***************************************************************************)
MenuListings ==
    {BothListed,
     <<GatewaySession(SubagentKeyA, FALSE, "running", Undefined),
       GatewaySession(SubagentKeyB, FALSE, "thinking", Undefined)>>,
     <<GatewaySession(ChildKey, TRUE, "idle", "agent:main:main"),
       GatewaySession(SubagentKeyB, FALSE, "idle", Undefined),
       GatewaySession(ColumnKey("col-a"), TRUE, "running", Undefined)>>}

NextMenu ==
    \/ \E agents \in {<<"col-a", "subagent">>} : initialize(agents)
    \/ \E listed \in MenuListings : ListSessionsResolves(listed, 1)
    \/ \E c \in ColumnIds, k \in {SubagentKeyA, SubagentKeyB, ChildKey} : assign(c, k)
    \/ \E c \in ColumnIds : unassign(c)

SpecMenu == Init /\ [][NextMenu]_vars

(***************************************************************************)
(* What the claims speak of.                                               *)
(***************************************************************************)
\* The step changed the store, and last' names the operation that did it.
Stepped == StoreVars' # StoreVars

AgentStep == Stepped /\ last'.op = "handleGatewayEvent" /\ last'.args[1].event = "agent"

\* An existing column: a configured column with its session.
ExistingColumn(c) == c \in DOMAIN sessions /\ c \in Range(config)

\* The other sessions are as they were.
OthersUnchanged(c) ==
    /\ DOMAIN sessions' = DOMAIN sessions
    /\ \A id \in DOMAIN sessions : id # c => sessions'[id] = sessions[id]

\* The session of c is as it was but for the fields named.
SessionUnchangedBut(c, fields) ==
    /\ DOMAIN sessions'[c] = DOMAIN sessions[c]
    /\ \A f \in DOMAIN sessions[c] : f \notin fields => sessions'[c][f] = sessions[c][f]

\* No subagent key is the assignedSubagent of two columns.
Exclusive ==
    \A c1, c2 \in DOMAIN sessions :
        (c1 # c2 /\ assignedSubagentOf(sessions[c1]) # NoKey)
            => assignedSubagentOf(sessions[c1]) # assignedSubagentOf(sessions[c2])

(***************************************************************************)
(* C1.  As claimed: in every reachable state no subagent session key is    *)
(* the assignedSubagent of more than one column.  The store assigns any    *)
(* key it is given, so this fails when a key is assigned twice.            *)
(***************************************************************************)
C1_ExclusiveAlways == Exclusive

(***************************************************************************)
(* C1, amended.  Every step that is not an assignSubagentToColumn(c, k) of *)
(* a key k that another column holds (a key the menu of c does not offer)  *)
(* keeps the delegation exclusive: when the callers assign available keys  *)
(* only, no key is ever the assignedSubagent of two columns.               *)
(***************************************************************************)
C1_ExclusiveWhenAvailable ==
    [][ (/\ Exclusive
         /\ ~(/\ Stepped
              /\ last'.op = "assignSubagentToColumn"
              /\ \A s \in useAvailableSubagents(last'.args[1]) :
                    s.key # last'.args[2]))
        => Exclusive' ]_vars

\* Two columns have been assigned, the second to the key that was available.
C1_Witness ==
    /\ last.op = "assignSubagentToColumn"
    /\ DOMAIN sessions = ColumnIds
    /\ \A c \in ColumnIds : assignedSubagentOf(sessions[c]) # NoKey
    /\ Exclusive

(***************************************************************************)
(* C3.  An assistant delta d of run r that arrives with the session key    *)
(* "agent:main:col-a" is appended to the text of the streaming message of  *)
(* r in column col-a ("Hel" then "lo" gives "Hello"), every time it is     *)
(* delivered; the column's status becomes streaming and no other message   *)
(* of the column changes.                                                  *)
(***************************************************************************)
C3_DeltaIsAppended ==
    [][ (/\ AgentStep
         /\ last'.args[1].payload.stream = "assistant"
         /\ last'.args[1].payload.data.delta # <<>>
         /\ last'.args[1].payload.sessionKey = ColumnKey("col-a")
         /\ ExistingColumn("col-a"))
        => LET r == last'.args[1].payload.runId
               d == last'.args[1].payload.data.delta
               old == sessions["col-a"].messages
               new == sessions'["col-a"].messages
           IN /\ Len(new) = Len(old)
              /\ \A i \in 1..Len(old) :
                    new[i] = IF old[i].runId = r /\ old[i].streaming
                             THEN [old[i] EXCEPT !.text = old[i].text \o d]
                             ELSE old[i]
              /\ sessions'["col-a"].status = "streaming"
              /\ OthersUnchanged("col-a") ]_vars

\* "Hel" and then "lo" were delivered for r1: its message reads "Hello".
C3_Witness ==
    /\ last.op = "handleGatewayEvent"
    /\ last.args[1] = AgentEvent(ColumnKey("col-a"), "r1", "assistant", lo, Undefined)
    /\ ExistingColumn("col-a")
    /\ sessions["col-a"].status = "streaming"
    /\ \E i \in 1..Len(sessions["col-a"].messages) :
        LET m == sessions["col-a"].messages[i] IN
        m.runId = "r1" /\ m.streaming /\ m.text = <<"H", "e", "l", "l", "o">>

(***************************************************************************)
(* C4.  A lifecycle end of run r applied to an existing column leaves      *)
(* every message of r in it with streaming = false, activeRunId null and   *)
(* status idle, and the texts and the order of its messages as they were.  *)
(***************************************************************************)
C4_EndFinalizes ==
    [][ (/\ AgentStep
         /\ last'.args[1].payload.stream = "lifecycle"
         /\ last'.args[1].payload.data.phase = "end"
         /\ ~includesSubagent(last'.args[1].payload.sessionKey)
         /\ ExistingColumn(columnIdOfKey(last'.args[1].payload.sessionKey)))
        => LET r == last'.args[1].payload.runId
               c == columnIdOfKey(last'.args[1].payload.sessionKey)
               old == sessions[c].messages
               new == sessions'[c].messages
           IN /\ Len(new) = Len(old)
              /\ \A i \in 1..Len(old) :
                    /\ new[i].runId = r => ~new[i].streaming
                    /\ new[i].text = old[i].text
                    /\ new[i].id = old[i].id
                    /\ new[i].runId = old[i].runId
                    /\ old[i].runId # r => new[i] = old[i]
              /\ sessions'[c].activeRunId = Null
              /\ sessions'[c].status = "idle" ]_vars

\* The end of r1 has finalized a message of r1 that holds text.
C4_Witness ==
    /\ last.op = "handleGatewayEvent"
    /\ last.args[1] = AgentEvent(ColumnKey("col-a"), "r1", "lifecycle", <<>>, "end")
    /\ ExistingColumn("col-a")
    /\ sessions["col-a"].activeRunId = Null
    /\ sessions["col-a"].status = "idle"
    /\ \E i \in 1..Len(sessions["col-a"].messages) :
        LET m == sessions["col-a"].messages[i] IN
        m.runId = "r1" /\ ~m.streaming /\ m.text # <<>>

(***************************************************************************)
(* C5.  A lifecycle start sets the status of its column to thinking and a  *)
(* tool_use event sets it to tool_use; the messages, activeRunId and       *)
(* tokenCount of the column and every other column stay as they were.      *)
(***************************************************************************)
C5_StatusOnly ==
    [][ (/\ AgentStep
         /\ \/ /\ last'.args[1].payload.stream = "lifecycle"
               /\ last'.args[1].payload.data.phase = "start"
            \/ last'.args[1].payload.stream = "tool_use"
         /\ ~includesSubagent(last'.args[1].payload.sessionKey)
         /\ ExistingColumn(columnIdOfKey(last'.args[1].payload.sessionKey)))
        => LET c == columnIdOfKey(last'.args[1].payload.sessionKey)
           IN /\ sessions'[c].status =
                    IF last'.args[1].payload.stream = "tool_use"
                    THEN "tool_use" ELSE "thinking"
              /\ SessionUnchangedBut(c, {"status"})
              /\ OthersUnchanged(c) ]_vars

\* A tool_use event reached a column in the middle of a run.
C5_Witness ==
    /\ last.op = "handleGatewayEvent"
    /\ last.args[1].event = "agent"
    /\ last.args[1].payload.stream = "tool_use"
    /\ ExistingColumn("col-a")
    /\ sessions["col-a"].status = "tool_use"
    /\ sessions["col-a"].activeRunId # Null
    /\ sessions["col-a"].tokenCount > 0

\* An agent event for a subagent key changed the store.
SubagentStep ==
    AgentStep /\ includesSubagent(last'.args[1].payload.sessionKey)

\* The columns that have key k as their assignedSubagent.
Watching(k) == {c \in DOMAIN sessions : assignedSubagentOf(sessions[c]) = k}

\* The messages of run r among messages, and the streaming ones among them.
OfRun(messages, r) == {i \in 1..Len(messages) : messages[i].runId = r}
StreamingOfRun(messages, r) == {i \in OfRun(messages, r) : messages[i].streaming}
TextsOf(messages, indices) == {messages[i].text : i \in indices}

(***************************************************************************)
(* C6.  While column c is assigned to subagent key k: the first assistant  *)
(* delta of a run r that neither the log of k nor c has seen gives each of *)
(* them one streaming message of r whose text is the delta; a delta that   *)
(* finds the streaming messages of r in the log and in c with the same     *)
(* text leaves them with the same text, the delta appended; and the        *)
(* lifecycle end of r leaves no message of r streaming in either.          *)
(***************************************************************************)
C6_DelegatedMirrorsLog ==
    [][ SubagentStep =>
        LET k == last'.args[1].payload.sessionKey
            r == last'.args[1].payload.runId
            d == last'.args[1].payload.data.delta
            isDelta == last'.args[1].payload.stream = "assistant" /\ d # <<>>
            isEnd == /\ last'.args[1].payload.stream = "lifecycle"
                     /\ last'.args[1].payload.data.phase = "end"
            log == subagentMessages[k]
            logAfter == subagentMessages'[k]
        IN \A c \in Watching(k) :
            LET col == sessions[c].messages
                colAfter == sessions'[c].messages
            IN /\ (isDelta /\ OfRun(log, r) = {} /\ OfRun(col, r) = {})
                    => /\ Cardinality(OfRun(logAfter, r)) = 1
                       /\ Cardinality(OfRun(colAfter, r)) = 1
                       /\ TextsOf(logAfter, StreamingOfRun(logAfter, r)) = {d}
                       /\ TextsOf(colAfter, StreamingOfRun(colAfter, r)) = {d}
               /\ (/\ isDelta
                   /\ StreamingOfRun(log, r) # {}
                   /\ TextsOf(log, StreamingOfRun(log, r))
                        = TextsOf(col, StreamingOfRun(col, r)))
                    => /\ TextsOf(logAfter, StreamingOfRun(logAfter, r))
                            = {t \o d : t \in TextsOf(log, StreamingOfRun(log, r))}
                       /\ TextsOf(colAfter, StreamingOfRun(colAfter, r))
                            = TextsOf(logAfter, StreamingOfRun(logAfter, r))
               /\ isEnd
                    => /\ StreamingOfRun(logAfter, r) = {}
                       /\ StreamingOfRun(colAfter, r) = {}
                       /\ TextsOf(logAfter, OfRun(logAfter, r)) = TextsOf(log, OfRun(log, r))
                       /\ TextsOf(colAfter, OfRun(colAfter, r)) = TextsOf(col, OfRun(col, r))
      ]_vars

\* Two deltas of r1 have reached the log of abc123 and the column watching it.
C6_Witness ==
    /\ last.op = "handleGatewayEvent"
    /\ last.args[1] = AgentEvent(SubagentKeyA, "r1", "assistant", lo, Undefined)
    /\ \E c \in Watching(SubagentKeyA) :
        /\ TextsOf(sessions[c].messages, StreamingOfRun(sessions[c].messages, "r1"))
                = {lo \o lo}
        /\ TextsOf(subagentMessages[SubagentKeyA],
                   StreamingOfRun(subagentMessages[SubagentKeyA], "r1")) = {lo \o lo}

(***************************************************************************)
(* C7.  An agent event whose sessionKey is a subagent key that no column   *)
(* has as assignedSubagent changes no session of any column, the column    *)
(* named "subagent" like a segment of the key included; of the subagent    *)
(* logs only the one of that key may change.                               *)
(***************************************************************************)
C7_PureSubagentEventKeepsSessions ==
    [][ (SubagentStep /\ Watching(last'.args[1].payload.sessionKey) = {})
        => /\ sessions' = sessions
           /\ sessionKeys' = sessionKeys
           /\ \A k \in SubagentKeys :
                k # last'.args[1].payload.sessionKey
                    => subagentMessages'[k] = subagentMessages[k] ]_vars

\* A delta for abc123 went to its log while column "subagent" existed and
\* no column was watching abc123.
C7_Witness ==
    /\ last.op = "handleGatewayEvent"
    /\ last.args[1] = AgentEvent(SubagentKeyA, "r1", "assistant", lo, Undefined)
    /\ Watching(SubagentKeyA) = {}
    /\ "subagent" \in DOMAIN sessions
    /\ sessions["subagent"].status = "idle"
    /\ sessions["subagent"].tokenCount = 0
    /\ subagentMessages[SubagentKeyA] # <<>>

(***************************************************************************)
(* C8.  An assistant delta of run r for subagent key k, delegated or not:  *)
(* when the log of k holds a streaming message of r, the delta is appended *)
(* to the text of the first such message and nothing else in the log       *)
(* changes; otherwise the log grows at its end by one streaming assistant  *)
(* message of r whose text is the delta.  The logs of the other keys stay  *)
(* as they were.                                                           *)
(***************************************************************************)
C8_LogDelta ==
    [][ (/\ SubagentStep
         /\ last'.args[1].payload.stream = "assistant"
         /\ last'.args[1].payload.data.delta # <<>>)
        => LET k == last'.args[1].payload.sessionKey
               r == last'.args[1].payload.runId
               d == last'.args[1].payload.data.delta
               log == subagentMessages[k]
               logAfter == subagentMessages'[k]
               open == StreamingOfRun(log, r)
           IN /\ IF open # {}
                 THEN LET first == CHOOSE i \in open : \A j \in open : i <= j
                      IN logAfter = [log EXCEPT ![first].text = log[first].text \o d]
                 ELSE /\ Len(logAfter) = Len(log) + 1
                      /\ SubSeq(logAfter, 1, Len(log)) = log
                      /\ logAfter[Len(logAfter)].role = "assistant"
                      /\ logAfter[Len(logAfter)].streaming
                      /\ logAfter[Len(logAfter)].runId = r
                      /\ logAfter[Len(logAfter)].text = d
              /\ \A k2 \in SubagentKeys :
                    k2 # k => subagentMessages'[k2] = subagentMessages[k2] ]_vars

\* The log of abc123 accumulated two deltas of r1 while col-a was watching it.
C8_Witness ==
    /\ last.op = "handleGatewayEvent"
    /\ last.args[1] = AgentEvent(SubagentKeyA, "r1", "assistant", lo, Undefined)
    /\ Watching(SubagentKeyA) # {}
    /\ TextsOf(subagentMessages[SubagentKeyA],
               StreamingOfRun(subagentMessages[SubagentKeyA], "r1")) = {lo \o lo}
    /\ Len(subagentMessages[SubagentKeyA]) = 1

(***************************************************************************)
(* C9.  The lifecycle end of run r for subagent key k leaves no message of *)
(* r in the log of k streaming and the log otherwise as it was (count,     *)
(* order, texts); a delta of r that finds no streaming message of r, as    *)
(* after the end, adds a new streaming message at the end of the log and   *)
(* leaves the finalized ones untouched.                                    *)
(***************************************************************************)
C9_LogEnd ==
    [][ SubagentStep =>
        LET k == last'.args[1].payload.sessionKey
            r == last'.args[1].payload.runId
            log == subagentMessages[k]
            logAfter == subagentMessages'[k]
        IN /\ (/\ last'.args[1].payload.stream = "lifecycle"
               /\ last'.args[1].payload.data.phase = "end")
                => /\ Len(logAfter) = Len(log)
                   /\ \A i \in 1..Len(log) :
                        logAfter[i] = IF log[i].runId = r
                                      THEN [log[i] EXCEPT !.streaming = FALSE]
                                      ELSE log[i]
                   /\ StreamingOfRun(logAfter, r) = {}
           /\ (/\ last'.args[1].payload.stream = "assistant"
               /\ last'.args[1].payload.data.delta # <<>>
               /\ OfRun(log, r) # {}
               /\ StreamingOfRun(log, r) = {})
                => /\ Len(logAfter) = Len(log) + 1
                   /\ SubSeq(logAfter, 1, Len(log)) = log
                   /\ logAfter[Len(logAfter)].streaming
                   /\ logAfter[Len(logAfter)].runId = r ]_vars

\* After the end of r1 a further delta of r1 opened a second message.
C9_Witness ==
    /\ last.op = "handleGatewayEvent"
    /\ last.args[1] = AgentEvent(SubagentKeyA, "r1", "assistant", lo, Undefined)
    /\ LET log == subagentMessages[SubagentKeyA]
       IN /\ Len(log) = 2
          /\ log[1].runId = "r1" /\ ~log[1].streaming /\ log[1].text = lo
          /\ log[2].runId = "r1" /\ log[2].streaming /\ log[2].text = lo

(***************************************************************************)
(* C10.  A chat event for a subagent key whose message has the role        *)
(* assistant leaves the log of the key as it was when (a) the message has  *)
(* a runId and the log holds a message of that runId, or (b) a message of  *)
(* the log is streaming.                                                   *)
(***************************************************************************)
C10_AssistantChatDropped ==
    [][ (/\ last'.op = "handleGatewayEvent"
         /\ last'.args[1].event = "chat"
         /\ includesSubagent(last'.args[1].payload.sessionKey)
         /\ last'.args[1].payload.message # None
         /\ last'.args[1].payload.message[1].role = "assistant"
         /\ LET log == subagentMessages[last'.args[1].payload.sessionKey]
                msgRunId == last'.args[1].payload.message[1].runId
            IN \/ msgRunId # Undefined /\ OfRun(log, msgRunId) # {}
               \/ \E i \in 1..Len(log) : log[i].streaming)
        => /\ subagentMessages' = subagentMessages
           /\ idCounter' = idCounter ]_vars

\* An assistant chat message of r1 arrived after the stream of r1 had ended
\* and the log still holds the one message of the stream.
C10_Witness ==
    /\ last.op = "handleGatewayEvent"
    /\ last.args[1] =
         ChatEvent(SubagentKeyA, Some(ChatMessageInput(101, "assistant", UserText, "r1")))
    /\ LET log == subagentMessages[SubagentKeyA]
       IN /\ Len(log) = 1
          /\ log[1].runId = "r1" /\ ~log[1].streaming /\ log[1].text = lo \o lo

\* The column ids a logged operation is aimed at: the column a direct call
\* names, the column the session key of an agent, compaction or usage event
\* resolves to, the columns a presence event lists.
TargetsOf(op) ==
    IF op.op \in {"setAgentStatus", "appendMessageChunk", "finalizeMessage",
                  "clearMessageHistory", "assignSubagentToColumn",
                  "unassignSubagentFromColumn"}
    THEN {op.args[1]}
    ELSE IF op.op # "handleGatewayEvent" THEN {}
    ELSE LET event == op.args[1] IN
         IF event.event = "agent"
         THEN IF Watching(event.payload.sessionKey) # {}
              THEN Watching(event.payload.sessionKey)
              ELSE IF includesSubagent(event.payload.sessionKey) THEN {}
              ELSE {columnIdOfKey(event.payload.sessionKey)}
         ELSE IF event.event \in {"compaction", "sessions.usage"}
         THEN {columnIdOfKey(event.payload.sessionKey)}
         ELSE IF event.event = "presence" /\ event.payload.agents # None
         THEN DOMAIN event.payload.agents[1]
         ELSE {}

(***************************************************************************)
(* C2.  A registry mutation (setAgentStatus, appendMessageChunk,           *)
(* finalizeMessage, clearMessageHistory, assignSubagentToColumn,           *)
(* unassignSubagentFromColumn, or an agent, compaction, sessions.usage or  *)
(* presence event) aimed at column ids none of which is a key of sessions  *)
(* leaves the whole store as it was and adds no key to sessions.           *)
(***************************************************************************)
C2_StaleMutationIsNoOp ==
    [][ (/\ TargetsOf(last') # {}
         /\ TargetsOf(last') \cap DOMAIN sessions = {})
        => /\ StoreVars' = StoreVars
           /\ DOMAIN sessions' = DOMAIN sessions ]_vars

\* A compaction event arrived for column "subagent" after its removal, col-a
\* remaining.
C2_Witness ==
    /\ last.op = "handleGatewayEvent"
    /\ last.args[1] = CompactionEvent(ColumnKey("subagent"), Some(4), Some(2), None)
    /\ DOMAIN sessions = {"col-a"}
    /\ config = <<"col-a">>

\* A chat event for a subagent key was handled.
ChatStep ==
    /\ last'.op = "handleGatewayEvent"
    /\ last'.args[1].event = "chat"
    /\ last'.args[1].payload.message # None
    /\ includesSubagent(last'.args[1].payload.sessionKey)

\* The chat message m is one the handler drops, given the log: an assistant
\* message that is blank, or of a run the log knows, or met by a streaming
\* message.
ChatDropped(m, log) ==
    /\ (IF m.role = Undefined THEN "assistant" ELSE m.role) = "assistant"
    /\ \/ isBlank(IF m.text # <<>> THEN m.text ELSE m.content)
       \/ m.runId # Undefined /\ OfRun(log, m.runId) # {}
       \/ \E i \in 1..Len(log) : log[i].streaming

(***************************************************************************)
(* C11.  A chat event for a subagent key whose message id is in the log of *)
(* the key leaves the length of the log and every message with another id  *)
(* as they were and, unless it is dropped, puts its role, text and runId   *)
(* in the message of that id, in place; a chat event that is not dropped   *)
(* and whose id is not in the log adds exactly one message, at the end.    *)
(***************************************************************************)
C11_ChatUpsert ==
    [][ ChatStep =>
        LET k == last'.args[1].payload.sessionKey
            m == last'.args[1].payload.message[1]
            log == subagentMessages[k]
            logAfter == subagentMessages'[k]
            present == {i \in 1..Len(log) : m.id # 0 /\ log[i].id = m.id}
            fields(msg) == <<msg.role, msg.text, msg.runId, msg.streaming>>
            given == <<IF m.role = Undefined THEN "assistant" ELSE m.role,
                       IF m.text # <<>> THEN m.text ELSE m.content, m.runId, FALSE>>
        IN /\ present # {}
                => /\ Len(logAfter) = Len(log)
                   /\ \A i \in 1..Len(log) :
                        /\ logAfter[i].id = log[i].id
                        /\ i \notin present => logAfter[i] = log[i]
                        /\ (i \in present /\ ~ChatDropped(m, log))
                                => fields(logAfter[i]) = given
           /\ (present = {} /\ ~ChatDropped(m, log))
                => /\ Len(logAfter) = Len(log) + 1
                   /\ SubSeq(logAfter, 1, Len(log)) = log
                   /\ fields(logAfter[Len(logAfter)]) = given
                   /\ m.id # 0 => logAfter[Len(logAfter)].id = m.id ]_vars

\* The message with id 101, first of two in the log, was given the run r1 by
\* a second chat event with that id and stayed where it was.
C11_Witness ==
    /\ last.op = "handleGatewayEvent"
    /\ last.args[1] =
         ChatEvent(SubagentKeyA, Some(ChatMessageInput(101, "user", UserText, "r1")))
    /\ LET log == subagentMessages[SubagentKeyA]
       IN /\ Len(log) = 2
          /\ log[1].id = 101 /\ log[1].runId = "r1" /\ log[1].role = "user"
          /\ log[2].id # 101

(***************************************************************************)
(* C12.  A chat event changes no session, whether or not a column watches  *)
(* its key, and nothing else of the store but the log of its own key; a    *)
(* chat event whose key is not a subagent key, or is absent, changes       *)
(* nothing at all.                                                         *)
(***************************************************************************)
C12_ChatTouchesOnlyItsLog ==
    [][ (last'.op = "handleGatewayEvent" /\ last'.args[1].event = "chat")
        => LET k == last'.args[1].payload.sessionKey
           IN /\ sessions' = sessions
              /\ UNCHANGED <<config, sessionKeys, columnOrder, gatewayConnected, client,
                             clientConnected, storage, calls>>
              /\ \A k2 \in SubagentKeys : k2 # k => subagentMessages'[k2] = subagentMessages[k2]
              /\ ~includesSubagent(k) => StoreVars' = StoreVars ]_vars

\* A user chat message went into the log of abc123 while col-a was watching
\* it and holds nothing but the notice of the delegation.
C12_Witness ==
    /\ last.op = "handleGatewayEvent"
    /\ last.args[1] =
         ChatEvent(SubagentKeyA, Some(ChatMessageInput(101, "user", UserText, Undefined)))
    /\ Watching(SubagentKeyA) = {"col-a"}
    /\ Len(sessions["col-a"].messages) = 1
    /\ \E i \in 1..Len(subagentMessages[SubagentKeyA]) :
            subagentMessages[SubagentKeyA][i].id = 101

\* The messages of role user in a log.
UserMessages(log) == {i \in 1..Len(log) : log[i].role = "user"}

(***************************************************************************)
(* C13.  As claimed: a message of role user enters the log of a subagent   *)
(* key through a chat event for that key and in no other way.              *)
(* sendSubagentMessage puts the user's message into the log itself.        *)
(***************************************************************************)
C13_UserMessagesOnlyFromChat ==
    [][ (\E k \in SubagentKeys :
            Cardinality(UserMessages(subagentMessages'[k]))
                > Cardinality(UserMessages(subagentMessages[k])))
        => /\ last'.op = "handleGatewayEvent"
           /\ last'.args[1].event = "chat" ]_vars

\* The store but for sessions, subagentMessages and the count of ids.
Surroundings ==
    <<config, sessionKeys, columnOrder, gatewayConnected, client, clientConnected,
      storage, calls>>

(***************************************************************************)
(* C14.  A presence event with a map sets connected, for every session     *)
(* whose id is in the map, to the online value reported, and sets its      *)
(* status to disconnected when that value is false, whatever the status    *)
(* was; with the value true the status stays.  The other fields of these   *)
(* sessions and the sessions the map does not name are unchanged, and no   *)
(* session is created for an id of the map that has none.                  *)
(***************************************************************************)
C14_Presence ==
    [][ (/\ last'.op = "handleGatewayEvent"
         /\ last'.args[1].event = "presence"
         /\ last'.args[1].payload.agents # None)
        => LET agents == last'.args[1].payload.agents[1]
           IN /\ DOMAIN sessions' = DOMAIN sessions
              /\ \A id \in DOMAIN sessions :
                    IF id \in DOMAIN agents
                    THEN /\ sessions'[id].connected = agents[id].online
                         /\ sessions'[id].status =
                                IF agents[id].online THEN sessions[id].status
                                ELSE "disconnected"
                         /\ \A f \in DOMAIN sessions[id] \ {"connected", "status"} :
                                sessions'[id][f] = sessions[id][f]
                    ELSE sessions'[id] = sessions[id]
              /\ UNCHANGED <<Surroundings, subagentMessages>> ]_vars

\* col-a was reported offline in the middle of the run r1.
C14_Witness ==
    /\ last.op = "handleGatewayEvent"
    /\ last.args[1].event = "presence"
    /\ "col-a" \in DOMAIN sessions
    /\ sessions["col-a"].status = "disconnected"
    /\ ~sessions["col-a"].connected
    /\ sessions["col-a"].activeRunId = "r1"
    /\ sessions["subagent"].status = "idle"
    /\ "main" \notin DOMAIN sessions

(***************************************************************************)
(* C15.  A compaction event adds one message of role compaction, with the  *)
(* beforeTokens, afterTokens and droppedMessages of the event (0 for one   *)
(* that is absent), at the end of the messages of the column its key       *)
(* names; tokenCount, usage, status, activeRunId and all else of that      *)
(* column, and every other column, are unchanged.                          *)
(***************************************************************************)
C15_Compaction ==
    [][ (/\ last'.op = "handleGatewayEvent"
         /\ last'.args[1].event = "compaction"
         /\ ExistingColumn(columnIdOfKey(last'.args[1].payload.sessionKey)))
        => LET payload == last'.args[1].payload
               c == columnIdOfKey(payload.sessionKey)
               old == sessions[c].messages
               new == sessions'[c].messages
           IN /\ Len(new) = Len(old) + 1
              /\ SubSeq(new, 1, Len(old)) = old
              /\ new[Len(new)].role = "compaction"
              /\ new[Len(new)].text = <<>>
              /\ new[Len(new)].compaction =
                    Some([beforeTokens |-> orZero(payload.beforeTokens),
                          afterTokens |-> orZero(payload.afterTokens),
                          droppedMessages |-> orZero(payload.droppedMessages)])
              /\ SessionUnchangedBut(c, {"messages"})
              /\ OthersUnchanged(c)
              /\ UNCHANGED <<Surroundings, subagentMessages>> ]_vars

\* A compaction divider follows the streamed text of r1 in col-a, whose
\* token count is still that of the delta.
C15_Witness ==
    /\ last.op = "handleGatewayEvent"
    /\ last.args[1].event = "compaction"
    /\ ExistingColumn("col-a")
    /\ LET messages == sessions["col-a"].messages
       IN /\ Len(messages) = 3
          /\ messages[2].text = lo
          /\ messages[3].role = "compaction"
          /\ messages[3].compaction =
                Some([beforeTokens |-> 4, afterTokens |-> 2, droppedMessages |-> 0])
    /\ sessions["col-a"].tokenCount = Len(lo)
    /\ sessions["col-a"].status = "streaming"

(***************************************************************************)
(* C16.  A sessions.usage event with a usage record makes that record the  *)
(* usage of the column its key names and usage.totalTokens its tokenCount, *)
(* whatever the deltas had added up to; messages, status, activeRunId and  *)
(* all else of that column, and every other column, are unchanged.  An     *)
(* event without a usage record changes nothing.                           *)
(***************************************************************************)
C16_Usage ==
    [][ (/\ last'.op = "handleGatewayEvent"
         /\ last'.args[1].event = "sessions.usage")
        => LET payload == last'.args[1].payload
               c == columnIdOfKey(payload.sessionKey)
           IN /\ payload.usage = None => StoreVars' = StoreVars
              /\ (payload.usage # None /\ ExistingColumn(c))
                    => /\ sessions'[c].usage = payload.usage
                       /\ sessions'[c].tokenCount = payload.usage[1].totalTokens
                       /\ SessionUnchangedBut(c, {"usage", "tokenCount"})
                       /\ OthersUnchanged(c)
                       /\ UNCHANGED <<Surroundings, subagentMessages, idCounter>> ]_vars

\* The gateway reported 3 tokens for col-a, which had counted the 4
\* characters of two deltas.
C16_Witness ==
    /\ last.op = "handleGatewayEvent"
    /\ last.args[1] = UsageEvent(ColumnKey("col-a"), Some([totalTokens |-> 3]))
    /\ ExistingColumn("col-a")
    /\ sessions["col-a"].tokenCount = 3
    /\ sessions["col-a"].usage = Some([totalTokens |-> 3])
    /\ \E i \in 1..Len(sessions["col-a"].messages) :
            sessions["col-a"].messages[i].text = lo \o lo

(***************************************************************************)
(* C17.  A tick event, and an event whose name is none of agent, presence, *)
(* tick, compaction, sessions.usage and chat, leaves the whole store as it *)
(* was and throws nothing.                                                 *)
(***************************************************************************)
C17_TickAndUnknownIgnored ==
    [][ (/\ last'.op = "handleGatewayEvent"
         /\ last'.args[1].event \notin
                {"agent", "presence", "compaction", "sessions.usage", "chat"})
        => /\ StoreVars' = StoreVars
           /\ ~handleGatewayEvent(Store, last'.args[1]).thrown ]_vars

\* An event named health arrived in the middle of the run r1 of col-a.
C17_Witness ==
    /\ last.op = "handleGatewayEvent"
    /\ last.args[1] = OtherEvent("health")
    /\ ExistingColumn("col-a")
    /\ sessions["col-a"].status = "streaming"
    /\ sessions["col-a"].activeRunId = "r1"

\* The column id a session key names: the third segment of
\* "agent:<name>:<columnId>", the second of a key of two segments, "main"
\* for a key that is absent or has one segment.
NamedColumn(k) ==
    IF Len(k) >= 3 THEN k[3] ELSE IF Len(k) = 2 THEN k[2] ELSE "main"

\* A store with the sessions of this one and nothing else of it: empty logs,
\* empty storage, no id handed out.
SessionsAlone ==
    [Store EXCEPT !.subagentMessages = [k \in SubagentKeys |-> <<>>],
                  !.storage = None,
                  !.idCounter = 0]

(***************************************************************************)
(* C18.  An agent event whose key is the assignedSubagent of no column     *)
(* changes no session but that of the column id the key names, and         *)
(* creates none; what it makes of the sessions is decided by the sessions  *)
(* and the event alone: a store with the same sessions and nothing else in *)
(* common ends with the same sessions.                                     *)
(***************************************************************************)
C18_RoutedByKeyAlone ==
    [][ (AgentStep /\ Watching(last'.args[1].payload.sessionKey) = {})
        => LET k == last'.args[1].payload.sessionKey
           IN /\ DOMAIN sessions' = DOMAIN sessions
              /\ \A id \in DOMAIN sessions :
                    id # NamedColumn(k) => sessions'[id] = sessions[id]
              /\ sessions' = handleGatewayEvent(SessionsAlone, last'.args[1]).sessions
      ]_vars

\* A delta without a session key went to column main while col-a, watching
\* abc123 with a message of its run, stayed as it was.
C18_Witness ==
    /\ last.op = "handleGatewayEvent"
    /\ last.args[1] = AgentEvent(NoKey, "r1", "assistant", lo, Undefined)
    /\ DOMAIN sessions = {"col-a", "main"}
    /\ sessions["main"].status = "streaming"
    /\ sessions["main"].tokenCount = Len(lo)
    /\ Watching(SubagentKeyA) = {"col-a"}
    /\ subagentMessages[SubagentKeyA] # <<>>
    /\ sessions["col-a"].tokenCount = Len(lo)

(***************************************************************************)
(* C19.  For every existing column c: an agent, compaction or              *)
(* sessions.usage event that carries the key sendMessage(c) sends to       *)
(* runAgent, which no column is delegated to, changes the session of c if  *)
(* it changes any, and the session of no other column.                     *)
(***************************************************************************)
C19_RoutingInvertsColumnKey ==
    [][ \A c \in DOMAIN sessions :
            (/\ Stepped
             /\ last'.op = "handleGatewayEvent"
             /\ last'.args[1].event \in {"agent", "compaction", "sessions.usage"}
             /\ last'.args[1].payload.sessionKey = ColumnKey(c)
             /\ Watching(ColumnKey(c)) = {})
            => OthersUnchanged(c) ]_vars

(***************************************************************************)
(* C20.  When the client reports onConnection(false), every session has    *)
(* connected = false and status disconnected afterwards.                   *)
(***************************************************************************)
C20_DisconnectedOnDrop ==
    [][ (last'.op = "onConnection" /\ last'.args[1] = FALSE /\ Stepped)
        => \A id \in DOMAIN sessions' :
                /\ "connected" \in DOMAIN sessions'[id]
                /\ sessions'[id].connected = FALSE
                /\ sessions'[id].status = "disconnected" ]_vars

\* The calls of the store that go out to the gateway.
OutboundOps ==
    {"sendMessage", "sendSubagentMessage", "refreshGatewaySessions",
     "fetchAvailableModels", "createAgentOnGateway", "deleteAgentOnGateway",
     "updateAgentModel"}

(***************************************************************************)
(* C21.  An outbound call of the store made while the client is absent or  *)
(* not connected hands no request to the client and leaves none awaiting a *)
(* response; sendMessage and sendSubagentMessage then leave sessions and   *)
(* subagentMessages as they were.                                          *)
(***************************************************************************)
C21_OfflineCallsSendNothing ==
    [][ (last'.op \in OutboundOps /\ ~(client # Null /\ clientConnected))
        => /\ last'.sent = <<>>
           /\ calls' = calls
           /\ last'.op \in {"sendMessage", "sendSubagentMessage"}
                => UNCHANGED <<sessions, subagentMessages, idCounter>> ]_vars

\* sendMessage was called for col-a after disconnect(): the column has the
\* user message of an earlier call and no other, and no request awaits.
C21_Witness ==
    /\ last.op = "sendMessage"
    /\ last.sent = <<>>
    /\ client = Null
    /\ "col-a" \in DOMAIN sessions
    /\ Cardinality(UserMessages(sessions["col-a"].messages)) = 1
    /\ sessions["col-a"].status = "error"
    /\ calls = <<>>

\* The step rejects the runAgent request that column c awaited.
RejectsCallOf(c) ==
    /\ last'.op \in {"cancelAll", "runAgentRejects"}
    /\ \E i \in 1..Len(calls) :
        /\ calls[i].method = "runAgent"
        /\ calls[i].agentId = c
        /\ ~(\E j \in 1..Len(calls') : calls'[j].id = calls[i].id)

(***************************************************************************)
(* C22.  When the connection is lost while sendMessage calls await their   *)
(* runAgent request, every request in flight is rejected and none is left  *)
(* pending; the sendMessage that awaited a rejected request does not hang: *)
(* its column has the status error once the request is rejected.           *)
(***************************************************************************)
C22_DropRejectsAll ==
    /\ (~clientConnected /\ calls # <<>>) ~> (calls = <<>>)
    /\ [][\A c \in ColumnIds :
            RejectsCallOf(c) => c \in DOMAIN sessions' /\ sessions'[c].status = "error"]_vars

\* The connection was lost with the requests of col-a and subagent in flight:
\* both were rejected, both columns have the status error and keep their
\* user message.
C22_Witness ==
    /\ last.op = "cancelAll"
    /\ last.args[1] = <<"col-a", "subagent">>
    /\ calls = <<>>
    /\ ~clientConnected
    /\ \A c \in ColumnIds :
        /\ c \in DOMAIN sessions
        /\ sessions[c].status = "error"
        /\ Cardinality(UserMessages(sessions[c].messages)) = 1

\* The step is the arrival of a response frame for the id.
ResponseFor(id) == last'.op \in {"resolve", "reject"} /\ last'.args[1] = id

(***************************************************************************)
(* C23.  With calls issued concurrently and responses arriving in any      *)
(* order: an id is registered once, when it is new; it stops being pending *)
(* only on a response that carries it, and then for good; that response    *)
(* settles the call that registered it alone (the other calls stay         *)
(* pending, the other columns are as they were); and a response whose id   *)
(* is not pending changes nothing.                                         *)
(***************************************************************************)
C23_SettledOnceByOwnResponse ==
    [][\A id \in ResponseIds :
        /\ (Pending(id)' /\ ~Pending(id)) => id > idCounter /\ last'.op = "sendMessage"
        /\ (Pending(id) /\ ~Pending(id)') => ResponseFor(id)
        /\ (ResponseFor(id) /\ Pending(id)) =>
                /\ calls' = RemoveAt(calls, CallOf(id))
                /\ ~Pending(id)'
                /\ OthersUnchanged(calls[CallOf(id)].agentId)
                /\ sessions'[calls[CallOf(id)].agentId].status
                        = (IF last'.op = "resolve" THEN "streaming" ELSE "error")
        /\ (ResponseFor(id) /\ ~Pending(id)) => StoreVars' = StoreVars
        /\ \A i, j \in 1..Len(calls') : calls'[i].id = calls'[j].id => i = j]_vars

\* Two calls are pending, of col-a (id 1) and of subagent (id 2); the
\* response for id 2 arrives first and settles the call of subagent alone.
C23_Witness ==
    /\ last.op = "resolve"
    /\ last.args[1] = 2
    /\ Len(calls) = 1
    /\ calls[1].id = 1
    /\ calls[1].agentId = "col-a"
    /\ sessions["col-a"].status = "thinking"
    /\ sessions["subagent"].status = "streaming"
    /\ sessions["subagent"].activeRunId = "r1"

\* A response arrived for an id that was settled before: nothing changed.
C23_WitnessLate ==
    /\ last.op = "reject"
    /\ last.args[1] = 1
    /\ calls = <<>>
    /\ sessions["col-a"].status = "streaming"

\* At most one message of a run is streaming in the sequence.
OneStreamingPerRun(messages) ==
    \A i, j \in 1..Len(messages) :
        (/\ messages[i].streaming
         /\ messages[j].streaming
         /\ messages[i].runId = messages[j].runId) => i = j

\* The store handles an assistant delta of the run.
DeltaStep(runId) ==
    /\ AgentStep
    /\ last'.args[1].payload.stream = "assistant"
    /\ last'.args[1].payload.data.delta # <<>>
    /\ last'.args[1].payload.runId = runId

\* From before to after, no message changed but a streaming message of the
\* run, and that one in its text, by the delta; a message that was added is
\* of the run.
DeltaOnlyInto(before, after, runId, delta) ==
    /\ Len(after) >= Len(before)
    /\ \A i \in 1..Len(before) :
            \/ after[i] = before[i]
            \/ /\ before[i].runId = runId
               /\ before[i].streaming
               /\ after[i] = [before[i] EXCEPT !.text = @ \o delta]
    /\ \A i \in (Len(before) + 1)..Len(after) : after[i].runId = runId

NoMessageOfRun(c, runId) ==
    \A i \in 1..Len(sessions[c].messages) : sessions[c].messages[i].runId # runId

(***************************************************************************)
(* C25.  As claimed: an agent event for the session key of col-a, while    *)
(* col-a exists and none of its messages has the runId of the event,       *)
(* leaves the messages, the status, the activeRunId and the tokenCount of  *)
(* col-a as they were.  The store applies the event whatever the runId.    *)
(***************************************************************************)
C25_StaleRunIgnored ==
    [][(/\ AgentStep
        /\ last'.args[1].payload.sessionKey = ColumnKey("col-a")
        /\ ExistingColumn("col-a")
        /\ hasMessages(sessions["col-a"])
        /\ NoMessageOfRun("col-a", last'.args[1].payload.runId))
            => /\ "col-a" \in DOMAIN sessions'
               /\ sessions'["col-a"].messages = sessions["col-a"].messages
               /\ sessions'["col-a"].status = sessions["col-a"].status
               /\ sessions'["col-a"].activeRunId = sessions["col-a"].activeRunId
               /\ sessions'["col-a"].tokenCount = sessions["col-a"].tokenCount]_vars

(***************************************************************************)
(* C26.  As claimed: when the runAgent request of a sendMessage of column  *)
(* c is rejected, c has the status error afterwards, its messages (the     *)
(* user message among them) and its activeRunId are as they were, no other *)
(* column changes, and no request is sent or registered.  This fails when  *)
(* c was removed while the request was in flight.                          *)
(***************************************************************************)
C26_RejectionTouchesOneColumn ==
    [][last'.op = "runAgentRejects" =>
        LET c == last'.args[1] IN
        /\ c \in DOMAIN sessions
        /\ OthersUnchanged(c)
        /\ sessions'[c].status = "error"
        /\ hasMessages(sessions'[c])
        /\ hasMessages(sessions[c])
        /\ sessions'[c].messages = sessions[c].messages
        /\ sessions'[c].activeRunId = sessions[c].activeRunId
        /\ last'.sent = <<>>
        /\ Len(calls') = Len(calls) - 1]_vars

(***************************************************************************)
(* C27.  As claimed: after any sequence of initialize, addAgent,           *)
(* removeAgent and reorderColumns, columnOrder holds each key of sessions  *)
(* exactly once and nothing else, and a call of addAgent leaves the        *)
(* messages of every session that existed as they were.  addAgent with the *)
(* id of an existing column fails both, and reorderColumns stores any      *)
(* order.                                                                  *)
(***************************************************************************)
C27_OneSessionPerColumnInOrder ==
    /\ [](/\ Range(columnOrder) = DOMAIN sessions
          /\ Len(columnOrder) = Cardinality(DOMAIN sessions))
    /\ [][last'.op = "addAgent" =>
            \A c \in DOMAIN sessions :
                hasMessages(sessions[c]) =>
                    /\ c \in DOMAIN sessions'
                    /\ hasMessages(sessions'[c])
                    /\ sessions'[c].messages = sessions[c].messages]_vars

(***************************************************************************)
(* C28.  As claimed: in every reachable state the keys of sessions are the *)
(* ids of config.agents, and every session has all the fields of an        *)
(* AgentSession.  A sendMessage whose runAgent request settles after its   *)
(* column was removed puts the column back, with a status alone.           *)
(***************************************************************************)
C28_SessionsAreTheConfiguredColumns ==
    /\ DOMAIN sessions = Range(config)
    /\ \A c \in DOMAIN sessions : DOMAIN sessions[c] = DOMAIN createSession(c)

\* The event updates column c: a presence event that reports c online, or an
\* agent event for the session key of c that sets a status.
UpdatesColumn(event, c) ==
    \/ /\ event.event = "presence"
       /\ event.payload.agents # None
       /\ c \in DOMAIN event.payload.agents[1]
       /\ event.payload.agents[1][c].online
    \/ /\ event.event = "agent"
       /\ event.payload.sessionKey = ColumnKey(c)
       /\ \/ event.payload.stream = "assistant" /\ event.payload.data.delta # <<>>
          \/ event.payload.stream = "lifecycle"
                /\ event.payload.data.phase \in {"start", "end"}
          \/ event.payload.stream = "tool_use"

(***************************************************************************)
(* C29.  As claimed: when col-a has the status disconnected, the next      *)
(* event that updates it (a presence event reporting it online, or an      *)
(* agent event that sets a status) leaves it with a status other than      *)
(* disconnected, so that it is not connected with the status disconnected  *)
(* after such an event.  A presence event that reports the column online   *)
(* keeps the status it finds.                                              *)
(***************************************************************************)
C29_DisconnectedUntilOverwritten ==
    [][(/\ last'.op = "handleGatewayEvent"
        /\ "col-a" \in DOMAIN sessions
        /\ sessions["col-a"].status = "disconnected"
        /\ UpdatesColumn(last'.args[1], "col-a"))
            => /\ "col-a" \in DOMAIN sessions'
               /\ sessions'["col-a"].status # "disconnected"
               /\ ~(sessions'["col-a"].connected
                        /\ sessions'["col-a"].status = "disconnected")]_vars

\* The messages of the sequence that are not streaming, in their order.
Finished(messages) == SelectSeq(messages, LAMBDA m : ~m.streaming)

(***************************************************************************)
(* C30.  As claimed: when the messages are saved (by disconnect) and       *)
(* initialize follows with the same agents, every configured column has    *)
(* exactly the messages that were not streaming when saved, in their       *)
(* order, and every session has the status idle, no activeRunId, the mode  *)
(* chat and no streaming message.  The save writes nothing when one of the *)
(* sessions has no messages field.                                         *)
(***************************************************************************)
C30_SaveThenInitializeRestores ==
    [][(/\ last.op = "disconnect"
        /\ last'.op = "initialize"
        /\ last'.args[1] = config)
            => \A c \in Range(config) :
                /\ c \in DOMAIN sessions'
                /\ (c \in DOMAIN sessions /\ hasMessages(sessions[c]))
                        => sessions'[c].messages = Finished(sessions[c].messages)
                /\ sessions'[c].status = "idle"
                /\ sessions'[c].activeRunId = Null
                /\ sessions'[c].mode = "chat"
                /\ Finished(sessions'[c].messages) = sessions'[c].messages]_vars

\* op is the handling of the lifecycle end of run r for the session key of c.
IsEndOfRun(op, c, r) ==
    /\ op.op = "handleGatewayEvent"
    /\ op.args[1].event = "agent"
    /\ op.args[1].payload.sessionKey = ColumnKey(c)
    /\ op.args[1].payload.runId = r
    /\ op.args[1].payload.stream = "lifecycle"
    /\ op.args[1].payload.data.phase = "end"

\* op is the arrival of the runAgent response of column c with runId r.
IsResponseOfRun(op, c, r) ==
    op.op = "runAgentResolves" /\ op.args[1] = c /\ op.args[2] = r

(***************************************************************************)
(* C33.  As claimed: when the runAgent response of a sendMessage of col-a  *)
(* and the lifecycle end of its run have both been handled, one right      *)
(* after the other in either order, col-a has no streaming message of the  *)
(* run, no activeRunId and the status idle.  With the end handled first,   *)
(* the response appends a streaming placeholder that nothing ends.         *)
(***************************************************************************)
C33_RunEndsInEitherOrder ==
    [][\A r \in RunIds :
        (\/ IsEndOfRun(last, "col-a", r) /\ IsResponseOfRun(last', "col-a", r)
         \/ IsResponseOfRun(last, "col-a", r) /\ IsEndOfRun(last', "col-a", r))
            => /\ "col-a" \in DOMAIN sessions'
               /\ hasMessages(sessions'["col-a"])
               /\ \A i \in 1..Len(sessions'["col-a"].messages) :
                    sessions'["col-a"].messages[i].runId = r
                        => ~sessions'["col-a"].messages[i].streaming
               /\ sessions'["col-a"].activeRunId = Null
               /\ sessions'["col-a"].status = "idle"]_vars

\* after is before with one message appended, of the role, text, streaming
\* flag and runId given.
AppendedOne(before, after, role, text, streaming, runId) ==
    /\ Len(after) = Len(before) + 1
    /\ SubSeq(after, 1, Len(before)) = before
    /\ after[Len(after)].role = role
    /\ after[Len(after)].text = text
    /\ after[Len(after)].streaming = streaming
    /\ after[Len(after)].runId = runId

(***************************************************************************)
(* C34.  sendMessage(c, text) on a connected store with existing column c  *)
(* appends one user message with the text and sets the status thinking;    *)
(* when runAgent resolves with runId r while c exists, one assistant       *)
(* message with runId r, empty text and streaming = true is appended,      *)
(* activeRunId becomes r and the status streaming.  In both steps the      *)
(* messages c had keep their order and content, and the other columns are  *)
(* as they were.                                                           *)
(***************************************************************************)
C34_SendThenPlaceholder ==
    [][/\ (last'.op = "sendMessage" /\ last'.sent # <<>>) =>
            LET c == last'.args[1] IN
            /\ c \in DOMAIN sessions
            /\ OthersUnchanged(c)
            /\ AppendedOne(sessions[c].messages, sessions'[c].messages,
                           "user", last'.args[2], FALSE, Undefined)
            /\ sessions'[c].status = "thinking"
            /\ sessions'[c].activeRunId = sessions[c].activeRunId
       /\ (last'.op = "runAgentResolves" /\ ExistingColumn(last'.args[1])) =>
            LET c == last'.args[1] IN
            /\ OthersUnchanged(c)
            /\ AppendedOne(sessions[c].messages, sessions'[c].messages,
                           "assistant", <<>>, TRUE, last'.args[2])
            /\ sessions'[c].activeRunId = last'.args[2]
            /\ sessions'[c].status = "streaming"]_vars

\* col-a sent "hi" and its request resolved with r1: the user message, then
\* the placeholder of r1.
C34_Witness ==
    /\ last.op = "runAgentResolves"
    /\ last.args[1] = "col-a"
    /\ ExistingColumn("col-a")
    /\ Len(sessions["col-a"].messages) = 2
    /\ sessions["col-a"].messages[1].role = "user"
    /\ sessions["col-a"].messages[1].text = UserText
    /\ sessions["col-a"].messages[2].role = "assistant"
    /\ sessions["col-a"].messages[2].runId = "r1"
    /\ sessions["col-a"].messages[2].streaming
    /\ sessions["col-a"].messages[2].text = <<>>
    /\ sessions["col-a"].activeRunId = "r1"
    /\ sessions["col-a"].status = "streaming"

(***************************************************************************)
(* C35.  As claimed: in every reachable state a column whose activeRunId   *)
(* is a run r holds a streaming message of r, and a column that holds a    *)
(* streaming message has an activeRunId.  The lifecycle end of another run *)
(* clears the activeRunId while the message of the active run is still     *)
(* streaming.                                                              *)
(***************************************************************************)
C35_ActiveRunIsStreaming ==
    \A c \in DOMAIN sessions :
        ("activeRunId" \in DOMAIN sessions[c] /\ hasMessages(sessions[c])) =>
            LET messages == sessions[c].messages IN
            /\ sessions[c].activeRunId # Null =>
                    \E i \in 1..Len(messages) :
                        messages[i].runId = sessions[c].activeRunId /\ messages[i].streaming
            /\ (\E i \in 1..Len(messages) : messages[i].streaming) =>
                    sessions[c].activeRunId # Null

\* session.mode, undefined when the session has no such field
modeOf(session) == IF "mode" \in DOMAIN session THEN session.mode ELSE Undefined

(***************************************************************************)
(* C36.  As claimed: in every reachable state and for every session, the   *)
(* mode is delegation exactly when assignedSubagent is set, and chat       *)
(* exactly when it is not.  The session that the continuation of           *)
(* sendMessage writes for a removed column has no mode at all.             *)
(***************************************************************************)
C36_ModeFollowsAssignment ==
    \A c \in DOMAIN sessions :
        /\ modeOf(sessions[c]) = "delegation" <=> assignedSubagentOf(sessions[c]) # NoKey
        /\ modeOf(sessions[c]) = "chat" <=> assignedSubagentOf(sessions[c]) = NoKey

\* The session of c gained one system message at the end of its messages and
\* changed in no field but those named and messages.
OneSystemMessageMore(c, fields) ==
    /\ c \in DOMAIN sessions'
    /\ Len(sessions'[c].messages) = Len(sessions[c].messages) + 1
    /\ SubSeq(sessions'[c].messages, 1, Len(sessions[c].messages)) = sessions[c].messages
    /\ sessions'[c].messages[Len(sessions'[c].messages)].role = "system"
    /\ SessionUnchangedBut(c, fields \cup {"messages"})

(***************************************************************************)
(* C37.  assignSubagentToColumn(c, k) on an existing column sets           *)
(* assignedSubagent to k, the mode to delegation and the status to idle    *)
(* and appends one system message; unassignSubagentFromColumn(c) clears    *)
(* assignedSubagent, sets the mode chat and the status idle and appends    *)
(* one system message.  Both keep the earlier messages and the other       *)
(* fields of c and leave every other column and every subagent log as it   *)
(* was.  An agent event for a subagent key changes no column that is not   *)
(* assigned to the key, so none that was unassigned from it.               *)
(***************************************************************************)
C37_AssignAndUnassign ==
    [][/\ (last'.op = "assignSubagentToColumn" /\ Stepped) =>
            LET c == last'.args[1] IN
            /\ c \in DOMAIN sessions
            /\ OneSystemMessageMore(c, {"assignedSubagent", "mode", "status"})
            /\ sessions'[c].assignedSubagent = last'.args[2]
            /\ sessions'[c].mode = "delegation"
            /\ sessions'[c].status = "idle"
            /\ OthersUnchanged(c)
            /\ subagentMessages' = subagentMessages
       /\ (last'.op = "unassignSubagentFromColumn" /\ Stepped) =>
            LET c == last'.args[1] IN
            /\ c \in DOMAIN sessions
            /\ OneSystemMessageMore(c, {"assignedSubagent", "mode", "status"})
            /\ sessions'[c].assignedSubagent = NoKey
            /\ sessions'[c].mode = "chat"
            /\ sessions'[c].status = "idle"
            /\ OthersUnchanged(c)
            /\ subagentMessages' = subagentMessages
       /\ (AgentStep /\ last'.args[1].payload.sessionKey \in SubagentKeys) =>
            /\ DOMAIN sessions' = DOMAIN sessions
            /\ \A c \in DOMAIN sessions :
                    assignedSubagentOf(sessions[c]) # last'.args[1].payload.sessionKey
                        => sessions'[c] = sessions[c]]_vars

\* col-a was assigned to abc123 and unassigned; a delta of abc123 arrived
\* afterwards and went into the log alone.
C37_Witness ==
    /\ last.op = "handleGatewayEvent"
    /\ last.args[1].event = "agent"
    /\ last.args[1].payload.sessionKey = SubagentKeyA
    /\ Len(subagentMessages[SubagentKeyA]) = 1
    /\ "col-a" \in DOMAIN sessions
    /\ sessions["col-a"].mode = "chat"
    /\ sessions["col-a"].assignedSubagent = NoKey
    /\ sessions["col-a"].status = "idle"
    /\ Len(sessions["col-a"].messages) = 2
    /\ sessions["col-a"].messages[1].role = "system"
    /\ sessions["col-a"].messages[2].role = "system"
    /\ sessions["col-a"].messages[2].text = <<"Stopped watching subagent">>

\* after holds the messages of before at their places, by id, and perhaps
\* more at the end.
GrowsAtTheEnd(before, after) ==
    /\ Len(after) >= Len(before)
    /\ \A i \in 1..Len(before) : after[i].id = before[i].id

\* The messages of column c and every subagent log grow at the end or change
\* in place.
ColumnKeepsMessages(c) ==
    hasMessages(sessions[c]) =>
        /\ c \in DOMAIN sessions'
        /\ hasMessages(sessions'[c])
        /\ GrowsAtTheEnd(sessions[c].messages, sessions'[c].messages)

LogsKeepMessages ==
    \A k \in DOMAIN subagentMessages :
        /\ k \in DOMAIN subagentMessages'
        /\ GrowsAtTheEnd(subagentMessages[k], subagentMessages'[k])

\* The part of C38 about gateway events alone: a gateway event removes and
\* reorders no message of a column or of a subagent log.
EventsKeepMessages ==
    [][last'.op = "handleGatewayEvent" =>
            /\ \A c \in DOMAIN sessions : ColumnKeepsMessages(c)
            /\ LogsKeepMessages]_vars

(***************************************************************************)
(* C38.  No gateway event removes or reorders messages: after a gateway    *)
(* event each column holds the messages it held, in their order, and       *)
(* perhaps more at the end, and so does each subagent log; and a step that *)
(* takes messages from a column is clearMessageHistory or removeAgent.     *)
(***************************************************************************)
C38_MessagesOnlyGrow ==
    [][/\ last'.op = "handleGatewayEvent" =>
            /\ \A c \in DOMAIN sessions : ColumnKeepsMessages(c)
            /\ LogsKeepMessages
       /\ \A c \in DOMAIN sessions :
            (hasMessages(sessions[c]) /\ sessions[c].messages # <<>>)
                => \/ ColumnKeepsMessages(c)
                   \/ Stepped /\ last'.op \in {"clearMessageHistory", "removeAgent"}]_vars

\* The step is clearMessageHistory(c) on a column that has a session.
ClearStep(c) ==
    /\ Stepped
    /\ last'.op = "clearMessageHistory"
    /\ last'.args[1] = c
    /\ c \in DOMAIN sessions

\* The step is an assistant delta of run runId.
DeltaOfRun(runId) ==
    /\ last'.op = "handleGatewayEvent"
    /\ last'.args[1].event = "agent"
    /\ last'.args[1].payload.stream = "assistant"
    /\ last'.args[1].payload.runId = runId

\* The part of C39 about the step of clearMessageHistory alone.
ClearFrame ==
    [][\A c \in ColumnIds :
        ClearStep(c) =>
            /\ c \in DOMAIN sessions'
            /\ sessions'[c].messages = <<>>
            /\ sessions'[c].tokenCount = 0
            /\ sessions'[c].usage = None
            /\ SessionUnchangedBut(c, {"messages", "tokenCount", "usage"})
            /\ OthersUnchanged(c)
            /\ subagentMessages' = subagentMessages]_vars

(***************************************************************************)
(* C39.  clearMessageHistory(c) on an existing column sets its messages to *)
(* empty, its tokenCount to 0 and its usage to undefined and leaves its    *)
(* status, activeRunId, connected, mode and assignedSubagent, every other  *)
(* column and every subagent log as they were; an assistant delta that     *)
(* arrives next for the run that was streaming into c (activeRunId of c,   *)
(* which the clearing left in place) adds no message to c.                 *)
(***************************************************************************)
C39_ClearMessageHistory ==
    [][\A c \in ColumnIds :
        /\ ClearStep(c) =>
            /\ c \in DOMAIN sessions'
            /\ sessions'[c].messages = <<>>
            /\ sessions'[c].tokenCount = 0
            /\ sessions'[c].usage = None
            /\ SessionUnchangedBut(c, {"messages", "tokenCount", "usage"})
            /\ OthersUnchanged(c)
            /\ subagentMessages' = subagentMessages
        /\ ( /\ last.op = "clearMessageHistory"
             /\ last.args[1] = c
             /\ c \in DOMAIN sessions
             /\ hasMessages(sessions[c])
             /\ "activeRunId" \in DOMAIN sessions[c]
             /\ sessions[c].activeRunId # Null
             /\ DeltaOfRun(sessions[c].activeRunId) )
            => /\ c \in DOMAIN sessions'
               /\ sessions'[c].messages = sessions[c].messages]_vars

\* The gateway sessions that are subagents, active and not watched by a
\* column other than c.
Candidates(c) ==
    {s \in Range(gatewaySessions) :
        /\ includesSubagent(s.key) \/ s.parentSession # Undefined
        /\ s.active \/ s.status \in {"running", "streaming"}
        /\ \A d \in DOMAIN sessions :
                d # c => assignedSubagentOf(sessions[d]) # s.key}

(***************************************************************************)
(* C31.  The candidates useAvailableSubagents(c) offers are exactly the    *)
(* gateway sessions that are subagents (their key contains ":subagent:" or *)
(* they have a parentSession), are active (active flag, or status running  *)
(* or streaming) and whose key is not the assignedSubagent of any column   *)
(* other than c.                                                           *)
(***************************************************************************)
C31_CandidatesOfTheMenu ==
    \A c \in ColumnIds : useAvailableSubagents(c) = Candidates(c)

\* Both subagents are listed and fit for the menu, and the column "subagent"
\* watches abc123: its own menu offers both, the menu of col-a xyz789 alone.
C31_Witness ==
    /\ DOMAIN sessions = ColumnIds
    /\ sessions["subagent"].assignedSubagent = SubagentKeyA
    /\ gatewaySessions = BothListed
    /\ useAvailableSubagents("col-a") =
            {GatewaySession(SubagentKeyB, TRUE, "running", Undefined)}
    /\ useAvailableSubagents("subagent") = Range(gatewaySessions)

\* A session that only thinks is listed and not offered, and the column
\* "subagent" keeps watching xyz789, which no menu offers any more.
C31_WitnessThinking ==
    /\ DOMAIN sessions = ColumnIds
    /\ sessions["subagent"].assignedSubagent = SubagentKeyB
    /\ gatewaySessions = <<GatewaySession(SubagentKeyA, FALSE, "running", Undefined),
                           GatewaySession(SubagentKeyB, FALSE, "thinking", Undefined)>>
    /\ useAvailableSubagents("subagent") =
            {GatewaySession(SubagentKeyA, FALSE, "running", Undefined)}

\* The columns that watch the session of key k.
Watchers(k) == {c \in DOMAIN sessions : assignedSubagentOf(sessions[c]) = k}

(***************************************************************************)
(* C32.  When assignSubagentToColumn(c, k) is invoked only with a key k    *)
(* that the menu of c offers at the call, no subagent key is the           *)
(* assignedSubagent of two columns, and an agent event for a key that is   *)
(* assigned is routed to exactly one column: one column watches the key,   *)
(* the event leaves every other column as it was, and a tool_use event     *)
(* sets the status of that column.                                         *)
(***************************************************************************)
C32_MenuKeepsRoutingExclusive ==
    [][/\ Exclusive'
       /\ ( /\ last'.op = "handleGatewayEvent"
            /\ last'.args[1].event = "agent"
            /\ Watchers(last'.args[1].payload.sessionKey) # {} )
          => \E c \in Watchers(last'.args[1].payload.sessionKey) :
                /\ Watchers(last'.args[1].payload.sessionKey) = {c}
                /\ OthersUnchanged(c)
                /\ last'.args[1].payload.stream = "tool_use"
                        => sessions'[c].status = "tool_use"]_vars

\* The two columns watch different subagents, and a tool_use event of
\* abc123 reached the column "subagent" alone.
C32_Witness ==
    /\ last.op = "handleGatewayEvent"
    /\ last.args[1].event = "agent"
    /\ last.args[1].payload.sessionKey = SubagentKeyA
    /\ last.args[1].payload.stream = "tool_use"
    /\ DOMAIN sessions = ColumnIds
    /\ sessions["col-a"].assignedSubagent = SubagentKeyB
    /\ sessions["subagent"].assignedSubagent = SubagentKeyA
    /\ sessions["subagent"].status = "tool_use"
    /\ sessions["col-a"].status = "idle"

\* The place of key k in the order.
PlaceIn(order, k) == CHOOSE i \in 1..Len(order) : order[i] = k

NoDuplicate(order) ==
    \A i, j \in 1..Len(order) : order[i] = order[j] => i = j

\* The subagent sessions of a listing, and those of them that count as active.
ListedSubagents(listed) ==
    {s \in Range(listed) : includesSubagent(s.key) \/ s.parentSession # Undefined}

ListedActive(listed) ==
    {s \in ListedSubagents(listed) :
        s.active \/ s.status \in {"running", "streaming", "thinking"}}

(***************************************************************************)
(* C40.  After a successful refreshGatewaySessions the subagentColumnOrder *)
(* has no duplicate, holds every key of an active subagent session of the  *)
(* response (active flag, or status running, streaming or thinking), holds *)
(* no key that no subagent session of the response has, and keeps the keys *)
(* it held before in their relative order.  When the listing fails, and    *)
(* when refreshGatewaySessions is called without a connected client,       *)
(* gatewaySessions, subagentColumnOrder and lastSubagentPoll stay as they  *)
(* were.                                                                   *)
(***************************************************************************)
C40_RefreshMergesTheOrder ==
    [][/\ last'.op = "listSessionsResolves" =>
            LET listed == last'.args[1]
                before == subagentColumnOrder
                after == subagentColumnOrder'
            IN /\ NoDuplicate(after)
               /\ \A s \in ListedActive(listed) : s.key \in Range(after)
               /\ \A k \in Range(after) : \E s \in ListedSubagents(listed) : s.key = k
               /\ \A i, j \in 1..Len(before) :
                    (i < j /\ before[i] \in Range(after) /\ before[j] \in Range(after))
                        => PlaceIn(after, before[i]) < PlaceIn(after, before[j])
       /\ last'.op = "listSessionsRejects" => UNCHANGED GatewayVars
       /\ (last'.op = "refreshGatewaySessions" /\ ~(client # Null /\ clientConnected))
            => UNCHANGED GatewayVars]_vars

\* The order held a key that is no session and abc123, added by hand; the
\* listing named xyz789 thinking and abc123 idle: abc123 stays, xyz789 is
\* added behind it, and the other key is gone.
C40_Witness ==
    /\ last.op = "listSessionsResolves"
    /\ last.args[1] = <<GatewaySession(SubagentKeyB, FALSE, "thinking", Undefined),
                        GatewaySession(SubagentKeyA, FALSE, "idle", Undefined)>>
    /\ gatewaySessions = last.args[1]
    /\ subagentColumnOrder = <<SubagentKeyA, SubagentKeyB>>
    /\ lastSubagentPoll = Some(2)

\* The listing failed after an earlier one had filled the order.
C40_WitnessRejected ==
    /\ last.op = "listSessionsRejects"
    /\ subagentColumnOrder # <<>>
    /\ gatewaySessions # <<>>
    /\ lastSubagentPoll = Some(1)

====
